---------------------------- MODULE Spec2Model ----------------------------
(***************************************************************************)
(* Model of the spreadsheet extraction engine (extractFinancialData and    *)
(* its helpers cleanNumber, parseBusinessComposition, identifyMetric), of  *)
(* the state of App and ProjectList, and of the nodes of ProfitSankey.     *)
(*                                                                         *)
(* Text.  A JavaScript string is modelled as the sequence of its           *)
(* characters.  A printable ASCII character is the one-character string    *)
(* holding it; any other character is the string "uXXXX" of its code       *)
(* point in hexadecimal (the module's strings are ASCII only), so          *)
(* <<"u8425", "u6536">> is the two-character text U+8425 U+6536.           *)
(*                                                                         *)
(* Numbers.  A JavaScript number is a record [k, m, e]: k = "num" is the   *)
(* decimal m * 10^(-e) in lowest form (e >= 0, and m is not a multiple of  *)
(* 10 unless e = 0), k = "nan" is NaN and k = "inf" is m * Infinity.       *)
(* Decimals are exact: binary rounding and the sign of zero are not        *)
(* modelled.                                                               *)
(***************************************************************************)
EXTENDS Integers, Sequences, FiniteSets, Bags, TLC

VARIABLES
    files,             \* per call: the input, a sequence of file names
    pc,                \* per call: "idle", "read", "sheet", "finalize", "done", "rejected"
    fileIndex,         \* per call: index (from 1) of the file of the for-of loop
    sheetIndex,        \* per call: index (from 1) of the next sheet of that file
    rows,              \* per call: the rows of the sheet processed last
    detectedStrategy,  \* per call: "HORIZONTAL", "VERTICAL" or "null", for that sheet
    headerRowIndex,    \* per call: its header row (from 0), -1 when none
    yearDataMap,       \* per map slot: the partial records, in insertion order
    result,            \* per call: the records the promise resolved with
    error,             \* per call: the error the promise rejected with
    callee,            \* the helper called on its own, "none" when none is
    arg,               \* its argument
    ret,               \* the value it returned
    returned,          \* whether it has returned
    projects,          \* App: the projects, [id, data], newest first
    view,              \* App: "LIST", "UPLOAD", "DETAIL" or "COMPARE"
    activeProjectId,   \* App: an id or "null"
    editingProjectId,  \* App: an id or "null"
    compareProjectIds, \* App: the ids given to handleCompareProjects
    status,            \* App: "IDLE", "ANALYZING", "SUCCESS" or "ERROR"
    appError,          \* App: its state error, a message or "null"
    pending,           \* App: the calls of handleAnalyzeComplete that wait for
                       \*   their extraction, a bag of the editingProjectId each
                       \*   call closed over
    nextId,            \* App: how many ids generateId has returned, plus 1
    selectedIds,       \* ProjectList: the ticked ids
    deleteConfirmId,   \* ProjectList: the id whose deletion is to be confirmed
    nodes              \* ProfitSankey: its nodes, [id, type, parentId, order]

\* the state of the calls of extractFinancialData
callVars == <<files, pc, fileIndex, sheetIndex, rows, detectedStrategy,
              headerRowIndex, yearDataMap, result, error>>

\* the state of a call of a helper
fnVars == <<callee, arg, ret, returned>>

\* the state of App and of the ProjectList it renders
appVars == <<projects, view, activeProjectId, editingProjectId,
             compareProjectIds, status, appError, pending, nextId,
             selectedIds, deleteConfirmId>>

vars == <<files, pc, fileIndex, sheetIndex, rows, detectedStrategy,
          headerRowIndex, yearDataMap, result, error, callee, arg, ret,
          returned, projects, view, activeProjectId, editingProjectId,
          compareProjectIds, status, appError, pending, nextId, selectedIds,
          deleteConfirmId, nodes>>

---------------------------------------------------------------------------
(* Integers and sequences *)

MinOf(S) == CHOOSE x \in S : \A y \in S : x <= y

MaxOf(S) == CHOOSE x \in S : \A y \in S : x >= y

RECURSIVE Pow10(_)
Pow10(n) == IF n <= 0 THEN 1 ELSE 10 * Pow10(n - 1)

AbsInt(i) == IF i < 0 THEN -i ELSE i

RECURSIVE Concat(_)
Concat(ss) == IF ss = <<>> THEN <<>> ELSE Head(ss) \o Concat(Tail(ss))

---------------------------------------------------------------------------
(* Text *)

\* The white space String.prototype.trim and the regular expression class \s
\* remove, as far as the model's alphabet has it.
WhiteSpace == {" ", "\t", "\n", "\r", "u00A0", "uFEFF", "u3000"}

DigitChars == <<"0", "1", "2", "3", "4", "5", "6", "7", "8", "9">>

Digits == {DigitChars[i] : i \in 1..10}

DigitVal(c) == (CHOOSE i \in 1..10 : DigitChars[i] = c) - 1

\* String.prototype.trim
Trim(s) ==
    LET keep == {i \in 1..Len(s) : s[i] \notin WhiteSpace}
    IN  IF keep = {} THEN <<>> ELSE SubSeq(s, MinOf(keep), MaxOf(keep))

\* s has p at (0-based) offset i
HasAt(s, p, i) == /\ i + Len(p) <= Len(s)
                  /\ \A j \in 1..Len(p) : s[i + j] = p[j]

\* String.prototype.includes
Includes(s, p) == \E i \in 0..(Len(s) - Len(p)) : HasAt(s, p, i)

StartsWith(s, p) == HasAt(s, p, 0)

EndsWith(s, p) == Len(p) <= Len(s) /\ HasAt(s, p, Len(s) - Len(p))

\* String.prototype.replace(/[set]/g, '')
RemoveChars(s, set) == SelectSeq(s, LAMBDA c : c \notin set)

\* String.prototype.split on a regular expression matching one character of seps
RECURSIVE Split(_, _)
Split(s, seps) ==
    LET at == {i \in 1..Len(s) : s[i] \in seps}
    IN  IF at = {} THEN <<s>>
        ELSE <<SubSeq(s, 1, MinOf(at) - 1)>>
               \o Split(SubSeq(s, MinOf(at) + 1, Len(s)), seps)

\* the number of digits of s from (1-based) position i on
DigitRun(s, i) ==
    LET stops == {j \in i..Len(s) : s[j] \notin Digits}
    IN  IF stops = {} THEN Len(s) - i + 1 ELSE MinOf(stops) - i

\* the value of the n digits of s from position i on
RECURSIVE DigitsValue(_, _, _)
DigitsValue(s, i, n) ==
    IF n <= 0 THEN 0
    ELSE 10 * DigitsValue(s, i, n - 1) + DigitVal(s[i + n - 1])

\* the decimal digits of a natural number
RECURSIVE NatToString(_)
NatToString(n) ==
    IF n < 10 THEN <<DigitChars[n + 1]>>
    ELSE NatToString(n \div 10) \o <<DigitChars[(n % 10) + 1]>>

---------------------------------------------------------------------------
(* Numbers *)

NaN == [k |-> "nan", m |-> 0, e |-> 0]

Infinity(sign) == [k |-> "inf", m |-> sign, e |-> 0]

\* the decimal m * 10^(-e), in lowest form
RECURSIVE Dec(_, _)
Dec(m, e) ==
    IF e < 0 THEN Dec(m * Pow10(-e), 0)
    ELSE IF e > 0 /\ m % 10 = 0 THEN Dec(m \div 10, e - 1)
    ELSE [k |-> "num", m |-> m, e |-> e]

Int2Num(i) == Dec(i, 0)

Zero == Int2Num(0)

isNaN(v) == v.k = "nan"

\* Math.abs
MathAbs(v) == [v EXCEPT !.m = AbsInt(v.m)]

\* v / 100
DivideBy100(v) == IF v.k = "num" THEN Dec(v.m, v.e + 2) ELSE v

\* Number.prototype.toString of a number printed without an exponent
NumToString(v) ==
    IF v.k = "nan" THEN <<"N", "a", "N">>
    ELSE LET sign == IF v.m < 0 THEN <<"-">> ELSE <<>>
         IN  IF v.k = "inf"
             THEN sign \o <<"I", "n", "f", "i", "n", "i", "t", "y">>
             ELSE LET a == AbsInt(v.m)
                      whole == NatToString(a \div Pow10(v.e))
                      frac == NatToString(Pow10(v.e) + (a % Pow10(v.e)))
                  IN  IF v.e = 0 THEN sign \o whole
                      ELSE sign \o whole \o <<".">> \o Tail(frac)

\* the text from its first character that is not white space on
SkipWhiteSpace(str) ==
    LET lead == {i \in 1..Len(str) : str[i] \notin WhiteSpace}
    IN  IF lead = {} THEN <<>> ELSE SubSeq(str, MinOf(lead), Len(str))

HasSign(s) == Len(s) >= 1 /\ s[1] \in {"+", "-"}

HasPoint(s, i) == i <= Len(s) /\ s[i] = "."

\* the number of digits after a point at position i, 0 without a point
FractionDigits(s, i) == IF HasPoint(s, i) THEN DigitRun(s, i + 1) ELSE 0

\* the value of an exponent part at position i, 0 when there is none
ExponentAt(s, i) ==
    IF i <= Len(s) /\ s[i] \in {"e", "E"}
    THEN IF i + 1 <= Len(s) /\ s[i + 1] \in {"+", "-"}
         THEN (IF s[i + 1] = "-" THEN -1 ELSE 1)
                * DigitsValue(s, i + 2, DigitRun(s, i + 2))
         ELSE DigitsValue(s, i + 1, DigitRun(s, i + 1))
    ELSE 0

\* n1 digits from position i0, then a point and n2 digits, then an exponent
DecimalValue(s, sign, i0, n1, n2) ==
    IF n1 + n2 = 0 THEN NaN
    ELSE Dec(sign * (DigitsValue(s, i0, n1) * Pow10(n2)
                       + DigitsValue(s, i0 + n1 + 1, n2)),
             n2 - ExponentAt(s, i0 + n1 + (IF HasPoint(s, i0 + n1) THEN 1 + n2 ELSE 0)))

ParseUnsigned(s, sign, i0) ==
    IF HasAt(s, <<"I", "n", "f", "i", "n", "i", "t", "y">>, i0 - 1)
    THEN Infinity(sign)
    ELSE DecimalValue(s, sign, i0, DigitRun(s, i0),
                      FractionDigits(s, i0 + DigitRun(s, i0)))

ParseSigned(s) ==
    ParseUnsigned(s, IF HasSign(s) /\ s[1] = "-" THEN -1 ELSE 1,
                  IF HasSign(s) THEN 2 ELSE 1)

\* parseFloat: the longest prefix of the text, after leading white space,
\* that is a decimal literal (sign, digits, point, digits, exponent) or a
\* signed Infinity; NaN when there is none.
parseFloat(str) == ParseSigned(SkipWhiteSpace(str))

\* parseInt(str) in base 10 of a text of digits, as the sort applies it
parseInt(str) == DigitsValue(str, 1, DigitRun(str, 1))

---------------------------------------------------------------------------
(* Cells: what utils.sheet_to_json hands over for one cell *)

StrCell(s) == [t |-> "string", s |-> s, n |-> Zero]

NumCell(v) == [t |-> "number", s |-> <<>>, n |-> v]

\* the value of an index past the end of its row
Undefined == [t |-> "undefined", s |-> <<>>, n |-> Zero]

\* row[idx], idx counted from 0
At(row, idx) == IF idx >= 0 /\ idx < Len(row) THEN row[idx + 1] ELSE Undefined

\* String(cell)
String(cell) ==
    IF cell.t = "string" THEN cell.s
    ELSE IF cell.t = "number" THEN NumToString(cell.n)
    ELSE <<"u", "n", "d", "e", "f", "i", "n", "e", "d">>

\* whether the cell is truthy
Truthy(cell) ==
    IF cell.t = "string" THEN cell.s # <<>>
    ELSE IF cell.t = "number" THEN ~(cell.n.k = "nan" \/ cell.n = Zero)
    ELSE FALSE

---------------------------------------------------------------------------
(* cleanNumber *)

\* the characters the first replace of cleanNumber removes: the currency
\* signs U+00A5 $ U+00A3 U+20AC, the comma and white space
CleanedChars == {"u00A5", "$", "u00A3", "u20AC", ","} \cup WhiteSpace

\* (a variant: parentheses are left as they are)
Parenthesized_Never(v) == v

\* "(...)" becomes "-..."
Parenthesized(v) ==
    IF StartsWith(v, <<"(">>) /\ EndsWith(v, <<")">>)
    THEN <<"-">> \o SubSeq(v, 2, Len(v) - 1)
    ELSE v

\* the number for the cleaned text v, parsed being parseFloat(v)
NumberOf(v, parsed) ==
    IF EndsWith(v, <<"%">>) THEN DivideBy100(parsed)
    ELSE IF v = <<"-">> \/ v = <<"u2014">> \/ v = <<>> THEN Zero
    ELSE IF isNaN(parsed) THEN Zero
    ELSE parsed

ParseCleaned(v) == NumberOf(v, parseFloat(v))

cleanNumber(val) ==
    IF val.t = "number" THEN val.n
    ELSE IF val.t = "string"
    THEN ParseCleaned(Parenthesized(Trim(RemoveChars(val.s, CleanedChars))))
    ELSE Zero

---------------------------------------------------------------------------
(* parseBusinessComposition *)

\* the item of a name and a value, as a sequence of 0 or 1 items
NamedItem(name, value) ==
    IF name # <<>> /\ ~isNaN(value)
    THEN <<[name |-> name, value |-> value]>>
    ELSE <<>>

\* the item of the parts a fragment splits into at its colons
ItemOfParts(parts) ==
    IF Len(parts) >= 2
    THEN NamedItem(Trim(parts[1]), cleanNumber(StrCell(parts[2])))
    ELSE <<>>

\* one fragment of the text
CompositionItem(s) == ItemOfParts(Split(s, {":", "uFF1A"}))

\* the items of the fragments from fragment i on
RECURSIVE ItemsFrom(_, _)
ItemsFrom(frags, i) ==
    IF i > Len(frags) THEN <<>>
    ELSE CompositionItem(frags[i]) \o ItemsFrom(frags, i + 1)

parseBusinessComposition(str) ==
    IF str = <<>> THEN <<>> ELSE ItemsFrom(Split(str, {";", "uFF1B"}), 1)

---------------------------------------------------------------------------
(* identifyMetric *)

BusinessCompositionZh ==
    <<"u4E3B", "u8425", "u4E1A", "u52A1", "u6784", "u6210">>  \* 主营业务构成

BusinessCompositionEn ==
    <<"B", "u", "s", "i", "n", "e", "s", "s", " ", "C", "o", "m", "p", "o", "s", "i", "t", "i", "o", "n">>

\* Object.entries(METRIC_RULES), in the order of the literal
METRIC_RULES ==
    <<
      [ key |-> "revenue",
        positive |-> <<
            <<"u8425", "u4E1A", "u603B", "u6536", "u5165">>,  \* 营业总收入
            <<"u8425", "u4E1A", "u6536", "u5165">>,  \* 营业收入
            <<"T", "o", "t", "a", "l", " ", "R", "e", "v", "e", "n", "u", "e">>,  \* Total Revenue
            <<"O", "p", "e", "r", "a", "t", "i", "n", "g", " ", "R", "e", "v", "e", "n", "u", "e">>,  \* Operating Revenue
            <<"R", "e", "v", "e", "n", "u", "e">>,  \* Revenue
            <<"M", "a", "i", "n", " ", "B", "u", "s", "i", "n", "e", "s", "s", " ", "I", "n", "c", "o", "m", "e">>,  \* Main Business Income
            <<"u8425", "u6536">>,  \* 营收
            <<"u4E3B", "u8425", "u4E1A", "u52A1", "u6536", "u5165">>  \* 主营业务收入
          >>,
        negative |-> <<
            <<"u6210", "u672C">>,  \* 成本
            <<"C", "o", "s", "t">>,  \* Cost
            <<"E", "x", "p", "e", "n", "s", "e">>,  \* Expense
            <<"u8D39", "u7528">>,  \* 费用
            <<"u589E", "u957F", "u7387">>,  \* 增长率
            <<"G", "r", "o", "w", "t", "h">>,  \* Growth
            <<"C", "a", "s", "h">>,  \* Cash
            <<"u73B0", "u91D1">>,  \* 现金
            <<"u7A0E">>,  \* 税
            <<"T", "a", "x">>,  \* Tax
            <<"u7387">>,  \* 率
            <<"R", "a", "t", "i", "o">>  \* Ratio
          >> ],
      [ key |-> "netProfitParent",
        positive |-> <<
            <<"u5F52", "u5C5E", "u4E8E", "u6BCD", "u516C", "u53F8", "u6240", "u6709", "u8005", "u7684", "u51C0", "u5229", "u6DA6">>,  \* 归属于母公司所有者的净利润
            <<"u5F52", "u5C5E", "u4E8E", "u6BCD", "u516C", "u53F8", "u80A1", "u4E1C", "u7684", "u51C0", "u5229", "u6DA6">>,  \* 归属于母公司股东的净利润
            <<"u5F52", "u6BCD", "u51C0", "u5229", "u6DA6">>,  \* 归母净利润
            <<"N", "e", "t", " ", "P", "r", "o", "f", "i", "t", " ", "A", "t", "t", "r", "i", "b", "u", "t", "a", "b", "l", "e", " ", "t", "o", " ", "O", "w", "n", "e", "r", "s">>,  \* Net Profit Attributable to Owners
            <<"N", "e", "t", " ", "I", "n", "c", "o", "m", "e", " ", "A", "t", "t", "r", "i", "b", "u", "t", "a", "b", "l", "e">>,  \* Net Income Attributable
            <<"N", "e", "t", " ", "P", "r", "o", "f", "i", "t", " ", "P", "a", "r", "e", "n", "t">>,  \* Net Profit Parent
            <<"u5F52", "u5C5E", "u4E8E", "u4E0A", "u5E02", "u516C", "u53F8", "u80A1", "u4E1C", "u7684", "u51C0", "u5229", "u6DA6">>  \* 归属于上市公司股东的净利润
          >>,
        negative |-> <<
            <<"u6263", "u975E">>,  \* 扣非
            <<"N", "o", "n", "-", "r", "e", "c", "u", "r", "r", "i", "n", "g">>,  \* Non-recurring
            <<"u7A0E", "u524D">>,  \* 税前
            <<"B", "e", "f", "o", "r", "e", " ", "T", "a", "x">>,  \* Before Tax
            <<"u589E", "u957F", "u7387">>,  \* 增长率
            <<"G", "r", "o", "w", "t", "h">>,  \* Growth
            <<"R", "a", "t", "e">>,  \* Rate
            <<"u7387">>  \* 率
          >> ],
      [ key |-> "totalAssets",
        positive |-> <<
            <<"u8D44", "u4EA7", "u603B", "u8BA1">>,  \* 资产总计
            <<"u8D44", "u4EA7", "u603B", "u989D">>,  \* 资产总额
            <<"T", "o", "t", "a", "l", " ", "A", "s", "s", "e", "t", "s">>,  \* Total Assets
            <<"u603B", "u8D44", "u4EA7">>  \* 总资产
          >>,
        negative |-> <<
            <<"u5E73", "u5747">>,  \* 平均
            <<"A", "v", "e", "r", "a", "g", "e">>,  \* Average
            <<"u51C0", "u8D44", "u4EA7">>,  \* 净资产
            <<"N", "e", "t", " ", "A", "s", "s", "e", "t", "s">>,  \* Net Assets
            <<"u6D41", "u52A8">>,  \* 流动
            <<"C", "u", "r", "r", "e", "n", "t">>,  \* Current
            <<"u975E", "u6D41", "u52A8">>,  \* 非流动
            <<"N", "o", "n", "-", "c", "u", "r", "r", "e", "n", "t">>,  \* Non-current
            <<"u5468", "u8F6C">>,  \* 周转
            <<"T", "u", "r", "n", "o", "v", "e", "r">>,  \* Turnover
            <<"u6536", "u76CA">>,  \* 收益
            <<"R", "e", "t", "u", "r", "n">>,  \* Return
            <<"u589E", "u957F">>,  \* 增长
            <<"G", "r", "o", "w", "t", "h">>,  \* Growth
            <<"D", "e", "p", "r", "e", "c", "i", "a", "t", "i", "o", "n">>,  \* Depreciation
            <<"u6298", "u65E7">>,  \* 折旧
            <<"u7387">>,  \* 率
            <<"R", "a", "t", "i", "o">>  \* Ratio
          >> ],
      [ key |-> "equityParent",
        positive |-> <<
            <<"u5F52", "u5C5E", "u4E8E", "u6BCD", "u516C", "u53F8", "u6240", "u6709", "u8005", "u6743", "u76CA">>,  \* 归属于母公司所有者权益
            <<"u5F52", "u5C5E", "u4E8E", "u6BCD", "u516C", "u53F8", "u80A1", "u4E1C", "u6743", "u76CA">>,  \* 归属于母公司股东权益
            <<"u5F52", "u6BCD", "u6743", "u76CA">>,  \* 归母权益
            <<"u5F52", "u5C5E", "u4E8E", "u6BCD", "u516C", "u53F8", "u80A1", "u4E1C", "u7684", "u6743", "u76CA">>,  \* 归属于母公司股东的权益
            <<"T", "o", "t", "a", "l", " ", "E", "q", "u", "i", "t", "y", " ", "A", "t", "t", "r", "i", "b", "u", "t", "a", "b", "l", "e", " ", "t", "o", " ", "O", "w", "n", "e", "r", "s">>,  \* Total Equity Attributable to Owners
            <<"E", "q", "u", "i", "t", "y", " ", "A", "t", "t", "r", "i", "b", "u", "t", "a", "b", "l", "e", " ", "t", "o", " ", "P", "a", "r", "e", "n", "t">>,  \* Equity Attributable to Parent
            <<"u5F52", "u5C5E", "u4E8E", "u4E0A", "u5E02", "u516C", "u53F8", "u80A1", "u4E1C", "u7684", "u6240", "u6709", "u8005", "u6743", "u76CA">>,  \* 归属于上市公司股东的所有者权益
            <<"u80A1", "u4E1C", "u6743", "u76CA", "u5408", "u8BA1">>,  \* 股东权益合计
            <<"u6240", "u6709", "u8005", "u6743", "u76CA", "u5408", "u8BA1">>,  \* 所有者权益合计
            <<"T", "o", "t", "a", "l", " ", "E", "q", "u", "i", "t", "y">>  \* Total Equity
          >>,
        negative |-> <<
            <<"u5C11", "u6570">>,  \* 少数
            <<"M", "i", "n", "o", "r", "i", "t", "y">>,  \* Minority
            <<"u5E73", "u5747">>,  \* 平均
            <<"A", "v", "e", "r", "a", "g", "e">>,  \* Average
            <<"u589E", "u957F">>,  \* 增长
            <<"G", "r", "o", "w", "t", "h">>,  \* Growth
            <<"u7387">>,  \* 率
            <<"R", "a", "t", "i", "o">>,  \* Ratio
            <<"u8D1F", "u503A">>,  \* 负债
            <<"L", "i", "a", "b", "i", "l", "i", "t", "i", "e", "s">>  \* Liabilities
          >> ],
      [ key |-> "operatingCashFlow",
        positive |-> <<
            <<"u7ECF", "u8425", "u6D3B", "u52A8", "u4EA7", "u751F", "u7684", "u73B0", "u91D1", "u6D41", "u91CF", "u51C0", "u989D">>,  \* 经营活动产生的现金流量净额
            <<"u7ECF", "u8425", "u6D3B", "u52A8", "u73B0", "u91D1", "u6D41", "u91CF", "u51C0", "u989D">>,  \* 经营活动现金流量净额
            <<"u7ECF", "u8425", "u6D3B", "u52A8", "u51C0", "u73B0", "u91D1", "u6D41">>,  \* 经营活动净现金流
            <<"N", "e", "t", " ", "C", "a", "s", "h", " ", "F", "l", "o", "w", " ", "f", "r", "o", "m", " ", "O", "p", "e", "r", "a", "t", "i", "n", "g", " ", "A", "c", "t", "i", "v", "i", "t", "i", "e", "s">>,  \* Net Cash Flow from Operating Activities
            <<"N", "e", "t", " ", "C", "a", "s", "h", " ", "f", "r", "o", "m", " ", "O", "p", "e", "r", "a", "t", "i", "n", "g">>,  \* Net Cash from Operating
            <<"O", "p", "e", "r", "a", "t", "i", "n", "g", " ", "C", "a", "s", "h", " ", "F", "l", "o", "w">>,  \* Operating Cash Flow
            <<"O", "C", "F">>,  \* OCF
            <<"u7ECF", "u8425", "u73B0", "u91D1", "u6D41">>,  \* 经营现金流
            <<"u7ECF", "u8425", "u6027", "u73B0", "u91D1", "u6D41">>  \* 经营性现金流
          >>,
        negative |-> <<
            <<"u6295", "u8D44">>,  \* 投资
            <<"I", "n", "v", "e", "s", "t", "i", "n", "g">>,  \* Investing
            <<"u7B79", "u8D44">>,  \* 筹资
            <<"F", "i", "n", "a", "n", "c", "i", "n", "g">>,  \* Financing
            <<"u589E", "u957F">>,  \* 增长
            <<"G", "r", "o", "w", "t", "h">>,  \* Growth
            <<"u7387">>,  \* 率
            <<"R", "a", "t", "i", "o">>  \* Ratio
          >> ],
      [ key |-> "capex",
        positive |-> <<
            <<"u8D2D", "u5EFA", "u56FA", "u5B9A", "u8D44", "u4EA7">>,  \* 购建固定资产
            <<"u8D2D", "u5EFA", "u56FA", "u5B9A", "u8D44", "u4EA7", "u3001", "u65E0", "u5F62", "u8D44", "u4EA7", "u548C", "u5176", "u4ED6", "u957F", "u671F", "u8D44", "u4EA7", "u652F", "u4ED8", "u7684", "u73B0", "u91D1">>,  \* 购建固定资产、无形资产和其他长期资产支付的现金
            <<"C", "a", "p", "i", "t", "a", "l", " ", "E", "x", "p", "e", "n", "d", "i", "t", "u", "r", "e">>,  \* Capital Expenditure
            <<"C", "a", "p", "e", "x">>,  \* Capex
            <<"C", "a", "p", "i", "t", "a", "l", " ", "S", "p", "e", "n", "d", "i", "n", "g">>,  \* Capital Spending
            <<"P", "u", "r", "c", "h", "a", "s", "e", " ", "o", "f", " ", "P", "r", "o", "p", "e", "r", "t", "y">>,  \* Purchase of Property
            <<"u8D44", "u672C", "u5F00", "u652F">>,  \* 资本开支
            <<"u8D44", "u672C", "u6027", "u652F", "u51FA">>  \* 资本性支出
          >>,
        negative |-> <<
            <<"R", "a", "t", "i", "o">>,  \* Ratio
            <<"u7387">>  \* 率
          >> ],
      [ key |-> "costOfRevenue",
        positive |-> <<
            <<"u8425", "u4E1A", "u6210", "u672C">>,  \* 营业成本
            <<"u8425", "u4E1A", "u603B", "u6210", "u672C">>,  \* 营业总成本
            <<"C", "o", "s", "t", " ", "o", "f", " ", "R", "e", "v", "e", "n", "u", "e">>,  \* Cost of Revenue
            <<"O", "p", "e", "r", "a", "t", "i", "n", "g", " ", "C", "o", "s", "t">>,  \* Operating Cost
            <<"C", "o", "s", "t", " ", "o", "f", " ", "S", "a", "l", "e", "s">>,  \* Cost of Sales
            <<"u4E3B", "u8425", "u4E1A", "u52A1", "u6210", "u672C">>  \* 主营业务成本
          >>,
        negative |-> <<
            <<"u7387">>,  \* 率
            <<"R", "a", "t", "i", "o">>,  \* Ratio
            <<"G", "r", "o", "w", "t", "h">>,  \* Growth
            <<"u589E", "u957F">>  \* 增长
          >> ],
      [ key |-> "salesExpenses",
        positive |-> <<
            <<"u9500", "u552E", "u8D39", "u7528">>,  \* 销售费用
            <<"S", "e", "l", "l", "i", "n", "g", " ", "E", "x", "p", "e", "n", "s", "e", "s">>,  \* Selling Expenses
            <<"D", "i", "s", "t", "r", "i", "b", "u", "t", "i", "o", "n", " ", "C", "o", "s", "t", "s">>,  \* Distribution Costs
            <<"M", "a", "r", "k", "e", "t", "i", "n", "g", " ", "E", "x", "p", "e", "n", "s", "e", "s">>  \* Marketing Expenses
          >>,
        negative |-> <<
            <<"u7387">>,  \* 率
            <<"R", "a", "t", "i", "o">>  \* Ratio
          >> ],
      [ key |-> "managementExpenses",
        positive |-> <<
            <<"u7BA1", "u7406", "u8D39", "u7528">>,  \* 管理费用
            <<"M", "a", "n", "a", "g", "e", "m", "e", "n", "t", " ", "E", "x", "p", "e", "n", "s", "e", "s">>,  \* Management Expenses
            <<"A", "d", "m", "i", "n", "i", "s", "t", "r", "a", "t", "i", "v", "e", " ", "E", "x", "p", "e", "n", "s", "e", "s">>,  \* Administrative Expenses
            <<"G", "e", "n", "e", "r", "a", "l", " ", "a", "n", "d", " ", "A", "d", "m", "i", "n", "i", "s", "t", "r", "a", "t", "i", "v", "e">>  \* General and Administrative
          >>,
        negative |-> <<
            <<"u7387">>,  \* 率
            <<"R", "a", "t", "i", "o">>  \* Ratio
          >> ],
      [ key |-> "financialExpenses",
        positive |-> <<
            <<"u8D22", "u52A1", "u8D39", "u7528">>,  \* 财务费用
            <<"F", "i", "n", "a", "n", "c", "i", "a", "l", " ", "E", "x", "p", "e", "n", "s", "e", "s">>,  \* Financial Expenses
            <<"F", "i", "n", "a", "n", "c", "e", " ", "C", "o", "s", "t", "s">>,  \* Finance Costs
            <<"I", "n", "t", "e", "r", "e", "s", "t", " ", "E", "x", "p", "e", "n", "s", "e">>  \* Interest Expense
          >>,
        negative |-> <<
            <<"u7387">>,  \* 率
            <<"R", "a", "t", "i", "o">>  \* Ratio
          >> ],
      [ key |-> "researchExpenses",
        positive |-> <<
            <<"u7814", "u53D1", "u8D39", "u7528">>,  \* 研发费用
            <<"R", "e", "s", "e", "a", "r", "c", "h", " ", "a", "n", "d", " ", "D", "e", "v", "e", "l", "o", "p", "m", "e", "n", "t">>,  \* Research and Development
            <<"R", "&", "D">>  \* R&D
          >>,
        negative |-> <<
            <<"u7387">>,  \* 率
            <<"R", "a", "t", "i", "o">>  \* Ratio
          >> ],
      [ key |-> "taxExpenses",
        positive |-> <<
            <<"u6240", "u5F97", "u7A0E", "u8D39", "u7528">>,  \* 所得税费用
            <<"u6240", "u5F97", "u7A0E">>,  \* 所得税
            <<"I", "n", "c", "o", "m", "e", " ", "T", "a", "x", " ", "E", "x", "p", "e", "n", "s", "e", "s">>,  \* Income Tax Expenses
            <<"I", "n", "c", "o", "m", "e", " ", "T", "a", "x">>  \* Income Tax
          >>,
        negative |-> <<
            <<"u9012", "u5EF6">>,  \* 递延
            <<"D", "e", "f", "e", "r", "r", "e", "d">>,  \* Deferred
            <<"P", "a", "y", "a", "b", "l", "e">>,  \* Payable
            <<"u5E94", "u4EA4">>,  \* 应交
            <<"u7387">>,  \* 率
            <<"R", "a", "t", "i", "o">>  \* Ratio
          >> ]
    >>

\* the value identifyMetric returns for "no metric"
null == "null"

businessComposition == "businessComposition"

\* (a variant: a negative keyword must be the whole label)
HasNegative_WholeLabel(rules, cleanStr) ==
    \E i \in 1..Len(rules.negative) : rules.negative[i] = cleanStr

\* rules.negative.some(n => cleanStr.includes(n))
HasNegative(rules, cleanStr) ==
    \E i \in 1..Len(rules.negative) : Includes(cleanStr, rules.negative[i])

\* rules.positive.some(p => cleanStr.includes(p))
HasPositive(rules, cleanStr) ==
    \E i \in 1..Len(rules.positive) : Includes(cleanStr, rules.positive[i])

\* (a variant: the positive keywords are tried before the negative ones)
RECURSIVE MatchRules_PositiveFirst(_, _)
MatchRules_PositiveFirst(cleanStr, i) ==
    IF i > Len(METRIC_RULES) THEN null
    ELSE IF HasPositive(METRIC_RULES[i], cleanStr) THEN METRIC_RULES[i].key
    ELSE MatchRules_PositiveFirst(cleanStr, i + 1)

\* the for loop over Object.entries(METRIC_RULES), from entry i on
RECURSIVE MatchRules(_, _)
MatchRules(cleanStr, i) ==
    IF i > Len(METRIC_RULES) THEN null
    ELSE IF HasNegative(METRIC_RULES[i], cleanStr) THEN MatchRules(cleanStr, i + 1)
    ELSE IF HasPositive(METRIC_RULES[i], cleanStr) THEN METRIC_RULES[i].key
    ELSE MatchRules(cleanStr, i + 1)

\* (a variant: the composition phrases are tried after the rules)
identifyMetric_RulesFirst(str) ==
    IF str = <<>> THEN null
    ELSE IF MatchRules(Trim(str), 1) # null THEN MatchRules(Trim(str), 1)
    ELSE IF \/ Includes(Trim(str), BusinessCompositionZh)
            \/ Includes(Trim(str), BusinessCompositionEn)
    THEN businessComposition
    ELSE null

identifyMetric(str) ==
    IF str = <<>> THEN null
    ELSE LET cleanStr == Trim(str)
         IN  IF \/ Includes(cleanStr, BusinessCompositionZh)
                \/ Includes(cleanStr, BusinessCompositionEn)
             THEN businessComposition
             ELSE MatchRules(cleanStr, 1)

---------------------------------------------------------------------------
(* extractFinancialData: strategy detection *)

\* the number of leading rows the detection scans
ScanLimit == 30

\* /^(20\d{2}|19\d{2})/.test(s)
YearLike(s) ==
    /\ Len(s) >= 4
    /\ SubSeq(s, 1, 2) \in {<<"2", "0">>, <<"1", "9">>}
    /\ s[3] \in Digits
    /\ s[4] \in Digits

yearCount(row) ==
    Cardinality({i \in 1..Len(row) : YearLike(Trim(String(row[i])))})

keywordMatchCount(row) ==
    Cardinality({i \in 1..Len(row) : identifyMetric(Trim(String(row[i]))) # null})

\* the least number of matched cells that makes a row a vertical header
VerticalThreshold == 3

\* (a variant: two matched cells make a vertical header)
RowStrategy_TwoLabels(row) ==
    IF yearCount(row) >= 2 THEN "HORIZONTAL"
    ELSE IF keywordMatchCount(row) >= 2 THEN "VERTICAL"
    ELSE null

\* what one iteration of the scan decides for its row
RowStrategy(row) ==
    IF yearCount(row) >= 2 THEN "HORIZONTAL"
    ELSE IF keywordMatchCount(row) >= VerticalThreshold THEN "VERTICAL"
    ELSE null

\* the rows (from 0) the scan loop can reach, r < Math.min(rows.length, 30),
\* at which its iteration decides a strategy
ScanHits(sheetRows) ==
    {r \in 0..(MinOf({Len(sheetRows), ScanLimit}) - 1) :
        RowStrategy(sheetRows[r + 1]) # null}

\* the scan loop with its breaks: the first such row decides
FirstHit(sheetRows, hits) ==
    IF hits = {} THEN [detectedStrategy |-> null, headerRowIndex |-> -1]
    ELSE [detectedStrategy |-> RowStrategy(sheetRows[MinOf(hits) + 1]),
          headerRowIndex |-> MinOf(hits)]

detectStrategy(sheetRows) == FirstHit(sheetRows, ScanHits(sheetRows))
---------------------------------------------------------------------------
(* extractFinancialData: the partial-record map *)

(* The object yearDataMap is the sequence of its records in the order their *)
(* keys were inserted; a record is a function from the names of its defined *)
(* properties, and its property year is its key.                            *)

Defined(d, key) == key \in DOMAIN d

HasYear(map, year) == \E i \in 1..Len(map) : map[i].year = year

\* yearDataMap[year], for a key the map has
RecordOf(map, year) == map[CHOOSE i \in 1..Len(map) : map[i].year = year]

\* if (!yearDataMap[year]) yearDataMap[year] = { year, businessComposition: [] }
EnsureYear(map, year) ==
    IF HasYear(map, year) THEN map
    ELSE Append(map, [year |-> year, businessComposition |-> <<>>])

\* d[key] = value
SetProperty(d, key, value) ==
    IF key \in DOMAIN d THEN [d EXCEPT ![key] = value] ELSE d @@ (key :> value)

\* yearDataMap[year][key] = value, for a key the map has
SetInMap(map, year, key, value) ==
    [map EXCEPT ![CHOOSE i \in 1..Len(map) : map[i].year = year] =
                    SetProperty(@, key, value)]

(* A sheet is turned into the sequence of the writes its loops make, in the *)
(* order they make them:                                                    *)
(*   ensure  create the year's record when the map has none                 *)
(*   set     ensure, then assign a metric                                   *)
(*   comp    assign businessComposition                                     *)
EnsureOp(year) ==
    [op |-> "ensure", year |-> year, key |-> null, val |-> Zero, items |-> <<>>]

SetOp(year, key, val) ==
    [op |-> "set", year |-> year, key |-> key, val |-> val, items |-> <<>>]

CompOp(year, items) ==
    [op |-> "comp", year |-> year, key |-> businessComposition, val |-> Zero,
     items |-> items]

\* the value stored for a metric: capex as its absolute value
StoredValue(key, val) == IF key = "capex" THEN MathAbs(val) ELSE val

\* (a variant: a property that is defined is not assigned again)
ApplyOp_FirstWins(map, o) ==
    LET m == EnsureYear(map, o.year)
    IN  IF o.op = "ensure" \/ Defined(RecordOf(m, o.year), o.key) THEN m
        ELSE IF o.op = "set" THEN SetInMap(m, o.year, o.key, o.val)
        ELSE SetInMap(m, o.year, businessComposition, o.items)

ApplyOp(map, o) ==
    LET m == EnsureYear(map, o.year)
    IN  IF o.op = "set" THEN SetInMap(m, o.year, o.key, o.val)
        ELSE IF o.op = "comp" THEN SetInMap(m, o.year, businessComposition, o.items)
        ELSE m

\* the map after the writes lo..hi of ops, in their order (the bound
\* variables hold the map and the writes as values: the second half is
\* applied to the map the first half has produced)
RECURSIVE ApplyRange(_, _, _, _)
ApplyRange(map, ops, lo, hi) ==
    IF lo > hi THEN map
    ELSE IF lo = hi THEN ApplyOp(map, ops[lo])
    ELSE CHOOSE r \in {ApplyRange(m, o, ((lo + hi) \div 2) + 1, hi) :
                           m \in {ApplyRange(map, ops, lo, (lo + hi) \div 2)},
                           o \in {ops}} : TRUE

ApplyOps(map, ops) ==
    CHOOSE r \in {ApplyRange(m, o, 1, Len(o)) : m \in {map}, o \in {ops}} : TRUE

---------------------------------------------------------------------------
(* extractFinancialData: the horizontal branch *)

\* cellStr.match(/(\d{4})/): the positions (from 1) where four digits start
FourDigitsAt(s) == {i \in 1..(Len(s) - 3) : \A j \in 0..3 : s[i + j] \in Digits}

\* the entry of yearColMap for the header cell of column idx, if any
YearColEntry(idx, cellStr) ==
    IF /\ FourDigitsAt(cellStr) # {}
       /\ \/ Includes(cellStr, <<"2", "0">>)
          \/ Includes(cellStr, <<"1", "9">>)
    THEN <<[col |-> idx,
            year |-> SubSeq(cellStr, MinOf(FourDigitsAt(cellStr)),
                            MinOf(FourDigitsAt(cellStr)) + 3)]>>
    ELSE <<>>

\* the entries of yearColMap, [col, year], by ascending column (from 0)
yearColMap(headerRow) ==
    Concat([i \in 1..Len(headerRow) |->
              YearColEntry(i - 1, Trim(String(headerRow[i])))])

\* String(row[0] || row[1] || '').trim()
RowLabel(row) ==
    Trim(IF Truthy(At(row, 0)) THEN String(At(row, 0))
         ELSE IF Truthy(At(row, 1)) THEN String(At(row, 1))
         ELSE <<>>)

\* (a variant: a composition row writes the composition of each year column)
HorizontalKeyOps_WithComposition(row, matchedKey, ycm) ==
    IF matchedKey = null THEN <<>>
    ELSE IF matchedKey = businessComposition
    THEN [i \in 1..Len(ycm) |->
            CompOp(ycm[i].year,
                   parseBusinessComposition(String(At(row, ycm[i].col))))]
    ELSE [i \in 1..Len(ycm) |->
            SetOp(ycm[i].year, matchedKey,
                  StoredValue(matchedKey, cleanNumber(At(row, ycm[i].col))))]

\* the writes of one data row whose label identifies as matchedKey
HorizontalKeyOps(row, matchedKey, ycm) ==
    IF matchedKey # null /\ matchedKey # businessComposition
    THEN [i \in 1..Len(ycm) |->
            SetOp(ycm[i].year, matchedKey,
                  StoredValue(matchedKey, cleanNumber(At(row, ycm[i].col))))]
    ELSE <<>>

\* the writes of one data row
HorizontalRowOps(row, ycm) ==
    HorizontalKeyOps(row, identifyMetric(RowLabel(row)), ycm)

\* the writes of the rows below the header row h (from 0), top to bottom
HorizontalOps(sheetRows, h) ==
    Concat([k \in 1..(Len(sheetRows) - h - 1) |->
              HorizontalRowOps(sheetRows[h + 1 + k], yearColMap(sheetRows[h + 1]))])

---------------------------------------------------------------------------
(* extractFinancialData: the vertical branch *)

\* the entry of metricColMap for the header cell of column idx, if any
MetricColEntry(idx, matchedKey) ==
    IF matchedKey # null THEN <<[col |-> idx, key |-> matchedKey]>> ELSE <<>>

\* the entries of metricColMap, [col, key], by ascending column (from 0)
metricColMap(headerRow) ==
    Concat([i \in 1..Len(headerRow) |->
              MetricColEntry(i - 1, identifyMetric(Trim(String(headerRow[i]))))])

\* the write of one mapped column of a data row with a year
VerticalCellOp(year, metricKey, rawVal) ==
    IF metricKey = businessComposition
    THEN CompOp(year, parseBusinessComposition(String(rawVal)))
    ELSE SetOp(year, metricKey, StoredValue(metricKey, cleanNumber(rawVal)))

\* the writes of one data row with a year
VerticalYearOps(row, year, mcm) ==
    <<EnsureOp(year)>>
      \o [i \in 1..Len(mcm) |-> VerticalCellOp(year, mcm[i].key, At(row, mcm[i].col))]

\* (a variant: the whole text of the cell is the year)
VerticalMatchOps_WholeText(row, yearStr, mcm) ==
    IF DigitRun(yearStr, 1) >= 4
    THEN VerticalYearOps(row, yearStr, mcm)
    ELSE <<>>

\* yearStr.match(/^(\d{4})/): the writes of the row, none without a match
VerticalMatchOps(row, yearStr, mcm) ==
    IF DigitRun(yearStr, 1) >= 4
    THEN VerticalYearOps(row, SubSeq(yearStr, 1, 4), mcm)
    ELSE <<>>

\* the writes of one data row
VerticalRowOps(row, mcm) == VerticalMatchOps(row, Trim(String(At(row, 0))), mcm)

\* (a variant: every row of the sheet is a data row)
VerticalOps_FromTop(sheetRows, h) ==
    Concat([k \in 1..Len(sheetRows) |->
              VerticalRowOps(sheetRows[k], metricColMap(sheetRows[h + 1]))])

\* the writes of the rows below the header row h (from 0), top to bottom
VerticalOps(sheetRows, h) ==
    Concat([k \in 1..(Len(sheetRows) - h - 1) |->
              VerticalRowOps(sheetRows[h + 1 + k], metricColMap(sheetRows[h + 1]))])

\* the writes of a sheet for which the detection returned d
BranchOps(sheetRows, d) ==
    IF d.detectedStrategy = "HORIZONTAL"
    THEN HorizontalOps(sheetRows, d.headerRowIndex)
    ELSE IF d.detectedStrategy = "VERTICAL"
    THEN VerticalOps(sheetRows, d.headerRowIndex)
    ELSE <<>>

\* the writes of one sheet: none when it is empty or no strategy is detected
SheetOps(sheetRows) == BranchOps(sheetRows, detectStrategy(sheetRows))

---------
(* extractFinancialData: filter, defaults, sort *)

\* whether a key is an integer index, which Object.values lists first
IsArrayIndex(key) ==
    /\ key # <<>>
    /\ \A i \in 1..Len(key) : key[i] \in Digits
    /\ (Len(key) = 1 \/ key[1] # "0")
    /\ Len(key) <= 9

\* the element of seq after which d goes: the last one not above it
RECURSIVE InsertByYear(_, _)
InsertByYear(seq, d) ==
    IF seq = <<>> THEN <<d>>
    ELSE IF parseInt(seq[Len(seq)].year) - parseInt(d.year) <= 0
    THEN Append(seq, d)
    ELSE Append(InsertByYear(SubSeq(seq, 1, Len(seq) - 1), d), seq[Len(seq)])

\* Array.prototype.sort((a, b) => parseInt(a.year) - parseInt(b.year)): stable
RECURSIVE SortByYear(_)
SortByYear(seq) ==
    IF seq = <<>> THEN <<>>
    ELSE InsertByYear(SortByYear(SubSeq(seq, 1, Len(seq) - 1)), seq[Len(seq)])

\* Object.values: integer keys ascending, then the others as inserted
ObjectValues(map) ==
    SortByYear(SelectSeq(map, LAMBDA d : IsArrayIndex(d.year)))
      \o SelectSeq(map, LAMBDA d : ~IsArrayIndex(d.year))

\* (a variant: any of the four defaulted metrics keeps the year)
IsValid_WithEquity(d) ==
    /\ d.year # <<>>
    /\ \/ Defined(d, "revenue")
       \/ Defined(d, "netProfitParent")
       \/ Defined(d, "totalAssets")
       \/ Defined(d, "equityParent")

\* the predicate of the filter
IsValid(d) ==
    /\ d.year # <<>>
    /\ \/ Defined(d, "revenue")
       \/ Defined(d, "netProfitParent")
       \/ Defined(d, "totalAssets")

\* (a variant: capex defaulted too)
DefaultedKeys_WithCapex ==
    <<"revenue", "netProfitParent", "totalAssets", "equityParent", "capex">>

\* the metrics set to 0 when undefined
DefaultedKeys == <<"revenue", "netProfitParent", "totalAssets", "equityParent">>

RECURSIVE FillFrom(_, _)
FillFrom(d, i) ==
    IF i > Len(DefaultedKeys) THEN d
    ELSE FillFrom(IF Defined(d, DefaultedKeys[i]) THEN d
                  ELSE SetProperty(d, DefaultedKeys[i], Zero), i + 1)

\* (a variant: nothing defaulted)
FillDefaults_None(d) == d

FillDefaults(d) == FillFrom(d, 1)

\* the array the call returns for a map
FilledAll(valid) == [i \in 1..Len(valid) |-> FillDefaults(valid[i])]

\* (a variant: the array returned as filtered, without the sort)
SortedOrEmpty_Unsorted(filled) == filled

SortedOrEmpty(filled) == IF Len(filled) = 0 THEN <<>> ELSE SortByYear(filled)

Finalized(map) == SortedOrEmpty(FilledAll(SelectSeq(ObjectValues(map), IsValid)))

\* the map after the defaults: the array holds the map's own objects, so the
\* assignments of the defaults are assignments to the records of the map
AfterDefaults(map) ==
    [j \in 1..Len(map) |-> IF IsValid(map[j]) THEN FillDefaults(map[j]) ELSE map[j]]

---------------------------------------------------------------------------
(* The inputs: sheets as utils.sheet_to_json(sheet, {header: 1, defval: ''}) *)
(* returns them, and the files that hold them                               *)

\* years as columns: two years, revenue and total assets
SheetA ==
    <<
      \* "项目" | "2021" | "2022"
      <<StrCell(<<"u9879", "u76EE">>),
        StrCell(<<"2", "0", "2", "1">>),
        StrCell(<<"2", "0", "2", "2">>)>>,
      \* "营业收入" | "1000" | "1200"
      <<StrCell(<<"u8425", "u4E1A", "u6536", "u5165">>),
        StrCell(<<"1", "0", "0", "0">>),
        StrCell(<<"1", "2", "0", "0">>)>>,
      \* "资产总计" | "5000" | "5500"
      <<StrCell(<<"u8D44", "u4EA7", "u603B", "u8BA1">>),
        StrCell(<<"5", "0", "0", "0">>),
        StrCell(<<"5", "5", "0", "0">>)>>
    >>

\* years as rows under a header row with two metric labels
SheetB ==
    <<
      \* "年份" | "营业收入" | "归属于母公司所有者的净利润"
      <<StrCell(<<"u5E74", "u4EFD">>),
        StrCell(<<"u8425", "u4E1A", "u6536", "u5165">>),
        StrCell(<<"u5F52", "u5C5E", "u4E8E", "u6BCD", "u516C", "u53F8", "u6240", "u6709", "u8005", "u7684", "u51C0", "u5229", "u6DA6">>)>>,
      \* "2020" | "800" | "80"
      <<StrCell(<<"2", "0", "2", "0">>),
        StrCell(<<"8", "0", "0">>),
        StrCell(<<"8", "0">>)>>,
      \* "2021" | "900" | "95"
      <<StrCell(<<"2", "0", "2", "1">>),
        StrCell(<<"9", "0", "0">>),
        StrCell(<<"9", "5">>)>>
    >>

\* years as rows under a header row with three labels, two of them metric labels
SheetC ==
    <<
      \* "年份" | "营业收入" | "净利润" | "总资产"
      <<StrCell(<<"u5E74", "u4EFD">>),
        StrCell(<<"u8425", "u4E1A", "u6536", "u5165">>),
        StrCell(<<"u51C0", "u5229", "u6DA6">>),
        StrCell(<<"u603B", "u8D44", "u4EA7">>)>>,
      \* "2020" | "800" | "80" | "4000"
      <<StrCell(<<"2", "0", "2", "0">>),
        StrCell(<<"8", "0", "0">>),
        StrCell(<<"8", "0">>),
        StrCell(<<"4", "0", "0", "0">>)>>
    >>

\* years as rows: five metric columns and a composition column; the rows
\* are not in year order, one has no year, one year has a leading zero
SheetV ==
    <<
      \* "年份" | "营业收入" | "归母净利润" | "资产总计" | "资本开支" | "主营业务构成"
      <<StrCell(<<"u5E74", "u4EFD">>),
        StrCell(<<"u8425", "u4E1A", "u6536", "u5165">>),
        StrCell(<<"u5F52", "u6BCD", "u51C0", "u5229", "u6DA6">>),
        StrCell(<<"u8D44", "u4EA7", "u603B", "u8BA1">>),
        StrCell(<<"u8D44", "u672C", "u5F00", "u652F">>),
        StrCell(<<"u4E3B", "u8425", "u4E1A", "u52A1", "u6784", "u6210">>)>>,
      \* "2022年" | "1,200" | "(30)" | "5500" | "-300" | "手机:700; 电脑:500"
      <<StrCell(<<"2", "0", "2", "2", "u5E74">>),
        StrCell(<<"1", ",", "2", "0", "0">>),
        StrCell(<<"(", "3", "0", ")">>),
        StrCell(<<"5", "5", "0", "0">>),
        StrCell(<<"-", "3", "0", "0">>),
        StrCell(<<"u624B", "u673A", ":", "7", "0", "0", ";", " ", "u7535", "u8111", ":", "5", "0", "0">>)>>,
      \* "2021" | "1100" | "—" | "" | "%" | "A:abc;:5;B"
      <<StrCell(<<"2", "0", "2", "1">>),
        StrCell(<<"1", "1", "0", "0">>),
        StrCell(<<"u2014">>),
        StrCell(<<>>),
        StrCell(<<"%">>),
        StrCell(<<"A", ":", "a", "b", "c", ";", ":", "5", ";", "B">>)>>,
      \* "合计" | "1" | "2" | "3" | "4" | ""
      <<StrCell(<<"u5408", "u8BA1">>),
        StrCell(<<"1">>),
        StrCell(<<"2">>),
        StrCell(<<"3">>),
        StrCell(<<"4">>),
        StrCell(<<>>)>>,
      \* "0999" | "5" | "6" | "7" | "(8)" | "x:1"
      <<StrCell(<<"0", "9", "9", "9">>),
        StrCell(<<"5">>),
        StrCell(<<"6">>),
        StrCell(<<"7">>),
        StrCell(<<"(", "8", ")">>),
        StrCell(<<"x", ":", "1">>)>>
    >>

\* years as rows: composition, capex and cost columns only
SheetW ==
    <<
      \* "年份" | "主营业务构成" | "资本开支" | "营业成本"
      <<StrCell(<<"u5E74", "u4EFD">>),
        StrCell(<<"u4E3B", "u8425", "u4E1A", "u52A1", "u6784", "u6210">>),
        StrCell(<<"u8D44", "u672C", "u5F00", "u652F">>),
        StrCell(<<"u8425", "u4E1A", "u6210", "u672C">>)>>,
      \* "2016" | "A:1" | "-9" | "4"
      <<StrCell(<<"2", "0", "1", "6">>),
        StrCell(<<"A", ":", "1">>),
        StrCell(<<"-", "9">>),
        StrCell(<<"4">>)>>,
      \* "2022" | "B:2" | "(10)" | "6"
      <<StrCell(<<"2", "0", "2", "2">>),
        StrCell(<<"B", ":", "2">>),
        StrCell(<<"(", "1", "0", ")">>),
        StrCell(<<"6">>)>>
    >>

\* years as columns under a title row: a numeric year cell, two columns of
\* the same year, a label in the second column, a short row, a ratio row
\* and a composition row
SheetH ==
    <<
      \* "合并报表" | "单位:元"
      <<StrCell(<<"u5408", "u5E76", "u62A5", "u8868">>),
        StrCell(<<"u5355", "u4F4D", ":", "u5143">>)>>,
      \* "科目" | 2023 | "2021年度" | "2021"
      <<StrCell(<<"u79D1", "u76EE">>),
        NumCell(Int2Num(2023)),
        StrCell(<<"2", "0", "2", "1", "u5E74", "u5EA6">>),
        StrCell(<<"2", "0", "2", "1">>)>>,
      \* "购建固定资产、无形资产和其他长期资产支付的现金" | "-300" | "(20)" | -45
      <<StrCell(<<"u8D2D", "u5EFA", "u56FA", "u5B9A", "u8D44", "u4EA7", "u3001", "u65E0", "u5F62", "u8D44", "u4EA7", "u548C", "u5176", "u4ED6", "u957F", "u671F", "u8D44", "u4EA7", "u652F", "u4ED8", "u7684", "u73B0", "u91D1">>),
        StrCell(<<"-", "3", "0", "0">>),
        StrCell(<<"(", "2", "0", ")">>),
        NumCell(Int2Num(-45))>>,
      \* "" | "营业收入" | "1" | "2"
      <<StrCell(<<>>),
        StrCell(<<"u8425", "u4E1A", "u6536", "u5165">>),
        StrCell(<<"1">>),
        StrCell(<<"2">>)>>,
      \* "营业收入增长率" | "10%" | "5%" | "1%"
      <<StrCell(<<"u8425", "u4E1A", "u6536", "u5165", "u589E", "u957F", "u7387">>),
        StrCell(<<"1", "0", "%">>),
        StrCell(<<"5", "%">>),
        StrCell(<<"1", "%">>)>>,
      \* "股东权益合计" | "100" | "90"
      <<StrCell(<<"u80A1", "u4E1C", "u6743", "u76CA", "u5408", "u8BA1">>),
        StrCell(<<"1", "0", "0">>),
        StrCell(<<"9", "0">>)>>,
      \* "主营业务构成" | "A:1" | "B:2" | "C:3"
      <<StrCell(<<"u4E3B", "u8425", "u4E1A", "u52A1", "u6784", "u6210">>),
        StrCell(<<"A", ":", "1">>),
        StrCell(<<"B", ":", "2">>),
        StrCell(<<"C", ":", "3">>)>>
    >>

\* years as columns: equity, capex and cost rows only
SheetE ==
    <<
      \* "项目" | "2018" | "2021"
      <<StrCell(<<"u9879", "u76EE">>),
        StrCell(<<"2", "0", "1", "8">>),
        StrCell(<<"2", "0", "2", "1">>)>>,
      \* "所有者权益合计" | "10" | "20"
      <<StrCell(<<"u6240", "u6709", "u8005", "u6743", "u76CA", "u5408", "u8BA1">>),
        StrCell(<<"1", "0">>),
        StrCell(<<"2", "0">>)>>,
      \* "资本性支出" | "-5" | "-6"
      <<StrCell(<<"u8D44", "u672C", "u6027", "u652F", "u51FA">>),
        StrCell(<<"-", "5">>),
        StrCell(<<"-", "6">>)>>,
      \* "营业成本" | "3" | "4"
      <<StrCell(<<"u8425", "u4E1A", "u6210", "u672C">>),
        StrCell(<<"3">>),
        StrCell(<<"4">>)>>
    >>

\* no row with two years or three labels
SheetN ==
    <<
      \* "说明" | "本表无数据"
      <<StrCell(<<"u8BF4", "u660E">>),
        StrCell(<<"u672C", "u8868", "u65E0", "u6570", "u636E">>)>>,
      \* "2020" | "x"
      <<StrCell(<<"2", "0", "2", "0">>),
        StrCell(<<"x">>)>>
    >>

\* years as rows under a header row with two metric labels and the
\* composition phrase; a row with a year above the header row, a year cell
\* with a fifth digit, a row without a year
SheetM ==
    <<
      \* "2019" | "1" | "2" | "3"
      <<StrCell(<<"2", "0", "1", "9">>),
        StrCell(<<"1">>),
        StrCell(<<"2">>),
        StrCell(<<"3">>)>>,
      \* "年份" | "营业收入" | "资产总计" | "主营业务构成"
      <<StrCell(<<"u5E74", "u4EFD">>),
        StrCell(<<"u8425", "u4E1A", "u6536", "u5165">>),
        StrCell(<<"u8D44", "u4EA7", "u603B", "u8BA1">>),
        StrCell(<<"u4E3B", "u8425", "u4E1A", "u52A1", "u6784", "u6210">>)>>,
      \* "20201" | "800" | "4000" | "A:1"
      <<StrCell(<<"2", "0", "2", "0", "1">>),
        StrCell(<<"8", "0", "0">>),
        StrCell(<<"4", "0", "0", "0">>),
        StrCell(<<"A", ":", "1">>)>>,
      \* "合计" | "5" | "6" | "B:2"
      <<StrCell(<<"u5408", "u8BA1">>),
        StrCell(<<"5">>),
        StrCell(<<"6">>),
        StrCell(<<"B", ":", "2">>)>>
    >>

\* years as columns: header cells with five digits, a range, two digits,
\* four digits that hold neither 20 nor 19, and a year with a suffix; a
\* metric row above the header row, a composition row and a short row
SheetY ==
    <<
      \* "资产总计" | "7" | "8"
      <<StrCell(<<"u8D44", "u4EA7", "u603B", "u8BA1">>),
        StrCell(<<"7">>),
        StrCell(<<"8">>)>>,
      \* "项目" | "12021" | "2019-2020" | "20" | "1234" | "2020年"
      <<StrCell(<<"u9879", "u76EE">>),
        StrCell(<<"1", "2", "0", "2", "1">>),
        StrCell(<<"2", "0", "1", "9", "-", "2", "0", "2", "0">>),
        StrCell(<<"2", "0">>),
        StrCell(<<"1", "2", "3", "4">>),
        StrCell(<<"2", "0", "2", "0", "u5E74">>)>>,
      \* "营业收入" | "1" | "2" | "3" | "4" | "5"
      <<StrCell(<<"u8425", "u4E1A", "u6536", "u5165">>),
        StrCell(<<"1">>),
        StrCell(<<"2">>),
        StrCell(<<"3">>),
        StrCell(<<"4">>),
        StrCell(<<"5">>)>>,
      \* "主营业务构成" | "X:9" | "X:9" | "X:9" | "X:9" | "X:9"
      <<StrCell(<<"u4E3B", "u8425", "u4E1A", "u52A1", "u6784", "u6210">>),
        StrCell(<<"X", ":", "9">>),
        StrCell(<<"X", ":", "9">>),
        StrCell(<<"X", ":", "9">>),
        StrCell(<<"X", ":", "9">>),
        StrCell(<<"X", ":", "9">>)>>,
      \* "营业成本" | "6" | "abc"
      <<StrCell(<<"u8425", "u4E1A", "u6210", "u672C">>),
        StrCell(<<"6">>),
        StrCell(<<"a", "b", "c">>)>>
    >>

\* the rows of SheetL from index 30 on: a header row with two years and
\* a data row
SheetLTail ==
    <<
      \* "项目" | "2021" | "2022"
      <<StrCell(<<"u9879", "u76EE">>),
        StrCell(<<"2", "0", "2", "1">>),
        StrCell(<<"2", "0", "2", "2">>)>>,
      \* "营业收入" | "1000" | "1200"
      <<StrCell(<<"u8425", "u4E1A", "u6536", "u5165">>),
        StrCell(<<"1", "0", "0", "0">>),
        StrCell(<<"1", "2", "0", "0">>)>>
    >>

\* 30 rows of notes, then a header row and a data row
SheetL == [i \in 1..30 |-> <<StrCell(<<"u8BF4", "u660E">>), StrCell(<<"x">>)>>] \o SheetLTail

\* a sheet without rows
SheetEmpty == <<>>

\* the files a call can be given, by name: whether file.arrayBuffer() and
\* read() succeed, and the workbook's sheets in the order of SheetNames
FileSystem ==
    [ a     |-> [readable |-> TRUE,  sheets |-> <<SheetA>>],
      b     |-> [readable |-> TRUE,  sheets |-> <<SheetB>>],
      c     |-> [readable |-> TRUE,  sheets |-> <<SheetC>>],
      v     |-> [readable |-> TRUE,  sheets |-> <<SheetV, SheetW>>],
      h     |-> [readable |-> TRUE,  sheets |-> <<SheetN, SheetH>>],
      e     |-> [readable |-> TRUE,  sheets |-> <<SheetEmpty, SheetE>>],
      l     |-> [readable |-> TRUE,  sheets |-> <<SheetL, SheetM, SheetY>>],
      bad   |-> [readable |-> FALSE, sheets |-> <<>>] ]

FileNames == DOMAIN FileSystem

\* the files two concurrent calls choose from: years as columns, years as
\* rows, a workbook whose first sheet is empty, and an unreadable file
CallFileNames == {"a", "v", "e", "bad"}

\* the most files one call is given
MaxFiles == 2

\* the most files each of two concurrent calls is given
MaxCallFiles == 1

\* the sequences of at most n of the given file names
RECURSIVE FileLists(_, _)
FileLists(names, n) ==
    IF n = 0 THEN {<<>>}
    ELSE LET shorter == FileLists(names, n - 1)
         IN  shorter \cup {Append(l, f) : l \in shorter, f \in names}

Calls == {1, 2}

---------------------------------------------------------------------------
(* extractFinancialData as a process: one call is at the await of a file,   *)
(* in the loop over that file's sheets, at the statements after the loops,  *)
(* or settled                                                               *)

\* (a variant: one map for all calls, as a module-level object would be)
yearDataMapOf_Shared(c) == 1

\* the map a call works on: the object its own first statement creates
yearDataMapOf(c) == c

\* the message of the error thrown from the catch clause, in its parts
ParseError(name) == <<"Failed to parse file: ", name, " - ", "Unknown error">>

NoError == <<>>

workbook(c) == FileSystem[files[c][fileIndex[c]]]

\* App is not mounted: its state, ProjectList's and ProfitSankey's as
\* useState gives them
NoApp ==
    /\ projects = <<>>
    /\ view = "LIST"
    /\ activeProjectId = null
    /\ editingProjectId = null
    /\ compareProjectIds = {}
    /\ status = "IDLE"
    /\ appError = null
    /\ pending = EmptyBag
    /\ nextId = 1
    /\ selectedIds = {}
    /\ deleteConfirmId = null
    /\ nodes = <<>>

\* no call has started; the second call is never made
Init ==
    /\ files \in [Calls -> FileLists(FileNames, MaxFiles)]
    /\ files[2] = <<>>
    /\ pc = [c \in Calls |-> IF c = 1 THEN "idle" ELSE "off"]
    /\ fileIndex = [c \in Calls |-> 0]
    /\ sheetIndex = [c \in Calls |-> 0]
    /\ rows = [c \in Calls |-> <<>>]
    /\ detectedStrategy = [c \in Calls |-> null]
    /\ headerRowIndex = [c \in Calls |-> -1]
    /\ yearDataMap = [s \in Calls |-> <<>>]
    /\ result = [c \in Calls |-> <<>>]
    /\ error = [c \in Calls |-> NoError]
    /\ callee = "none" /\ arg = <<>> /\ ret = <<>> /\ returned = FALSE
    /\ NoApp

\* no call has started; both will be made
InitCalls ==
    /\ files \in [Calls -> FileLists(CallFileNames, MaxCallFiles)]
    /\ pc = [c \in Calls |-> "idle"]
    /\ fileIndex = [c \in Calls |-> 0]
    /\ sheetIndex = [c \in Calls |-> 0]
    /\ rows = [c \in Calls |-> <<>>]
    /\ detectedStrategy = [c \in Calls |-> null]
    /\ headerRowIndex = [c \in Calls |-> -1]
    /\ yearDataMap = [s \in Calls |-> <<>>]
    /\ result = [c \in Calls |-> <<>>]
    /\ error = [c \in Calls |-> NoError]
    /\ callee = "none" /\ arg = <<>> /\ ret = <<>> /\ returned = FALSE
    /\ NoApp

\* the call: the map is created and the loop over the files is entered
Call(c) ==
    /\ pc[c] = "idle"
    /\ yearDataMap' = [yearDataMap EXCEPT ![yearDataMapOf(c)] = <<>>]
    /\ fileIndex' = [fileIndex EXCEPT ![c] = 1]
    /\ pc' = [pc EXCEPT ![c] = IF files[c] = <<>> THEN "finalize" ELSE "read"]
    /\ UNCHANGED <<files, sheetIndex, rows, detectedStrategy, headerRowIndex,
                   result, error>>
    /\ UNCHANGED <<fnVars, appVars, nodes>>

\* where the call goes after sheet si of its current file
AfterSheet(c, si) ==
    IF si < Len(workbook(c).sheets)
    THEN [pc |-> "sheet", fi |-> fileIndex[c], si |-> si + 1]
    ELSE IF fileIndex[c] < Len(files[c])
    THEN [pc |-> "read", fi |-> fileIndex[c] + 1, si |-> 0]
    ELSE [pc |-> "finalize", fi |-> fileIndex[c], si |-> 0]

\* await file.arrayBuffer() and read() succeed
ReadFile(c) ==
    /\ pc[c] = "read"
    /\ workbook(c).readable
    /\ LET next == AfterSheet(c, 0)
       IN  /\ pc' = [pc EXCEPT ![c] = next.pc]
           /\ fileIndex' = [fileIndex EXCEPT ![c] = next.fi]
           /\ sheetIndex' = [sheetIndex EXCEPT ![c] = next.si]
    /\ UNCHANGED <<files, rows, detectedStrategy, headerRowIndex, yearDataMap,
                   result, error>>
    /\ UNCHANGED <<fnVars, appVars, nodes>>

\* (a variant: the catch clause does not rethrow and the loop goes on)
ReadFileFails_Skips(c) ==
    /\ pc[c] = "read"
    /\ ~workbook(c).readable
    /\ LET next == AfterSheet(c, 0)
       IN  /\ pc' = [pc EXCEPT ![c] = next.pc]
           /\ fileIndex' = [fileIndex EXCEPT ![c] = next.fi]
           /\ sheetIndex' = [sheetIndex EXCEPT ![c] = next.si]
    /\ UNCHANGED <<files, rows, detectedStrategy, headerRowIndex, yearDataMap,
                   result, error>>
    /\ UNCHANGED <<fnVars, appVars, nodes>>

\* await file.arrayBuffer() or read() throws: the catch clause rethrows
ReadFileFails(c) ==
    /\ pc[c] = "read"
    /\ ~workbook(c).readable
    /\ pc' = [pc EXCEPT ![c] = "rejected"]
    /\ error' = [error EXCEPT ![c] = ParseError(files[c][fileIndex[c]])]
    /\ UNCHANGED <<files, fileIndex, sheetIndex, rows, detectedStrategy,
                   headerRowIndex, yearDataMap, result>>
    /\ UNCHANGED <<fnVars, appVars, nodes>>

\* one iteration of the loop over the sheets: detection, then the branch
ProcessSheet(c) ==
    /\ pc[c] = "sheet"
    /\ LET sheetRows == workbook(c).sheets[sheetIndex[c]]
           d == detectStrategy(sheetRows)
           next == AfterSheet(c, sheetIndex[c])
       IN  /\ rows' = [rows EXCEPT ![c] = sheetRows]
           /\ detectedStrategy' = [detectedStrategy EXCEPT ![c] = d.detectedStrategy]
           /\ headerRowIndex' = [headerRowIndex EXCEPT ![c] = d.headerRowIndex]
           /\ yearDataMap' =
                [yearDataMap EXCEPT
                    ![yearDataMapOf(c)] = ApplyOps(@, SheetOps(sheetRows))]
           /\ pc' = [pc EXCEPT ![c] = next.pc]
           /\ fileIndex' = [fileIndex EXCEPT ![c] = next.fi]
           /\ sheetIndex' = [sheetIndex EXCEPT ![c] = next.si]
    /\ UNCHANGED <<files, result, error>>
    /\ UNCHANGED <<fnVars, appVars, nodes>>

\* the statements after the loops: filter, defaults, sort, return
Finalize(c) ==
    /\ pc[c] = "finalize"
    /\ result' = [result EXCEPT ![c] = Finalized(yearDataMap[yearDataMapOf(c)])]
    /\ yearDataMap' = [yearDataMap EXCEPT ![yearDataMapOf(c)] = AfterDefaults(@)]
    /\ pc' = [pc EXCEPT ![c] = "done"]
    /\ UNCHANGED <<files, fileIndex, sheetIndex, rows, detectedStrategy,
                   headerRowIndex, error>>
    /\ UNCHANGED <<fnVars, appVars, nodes>>

Next ==
    \E c \in Calls :
        \/ Call(c)
        \/ ReadFile(c)
        \/ ReadFileFails(c)
        \/ ProcessSheet(c)
        \/ Finalize(c)

Spec == Init /\ [][Next]_vars

SpecCalls == InitCalls /\ [][Next]_vars

---------------------------------------------------------------------------
(* The helpers called on their own: the inputs *)

\* the texts made of at most n of the given parts, one after the other
RECURSIVE Joined(_, _)
Joined(parts, n) ==
    IF n = 0 THEN {<<>>}
    ELSE LET shorter == Joined(parts, n - 1)
         IN  shorter \cup {s \o p : s \in shorter, p \in parts}

\* what the labels given to identifyMetric are made of: a positive keyword of
\* seven rules, keywords that are negative for some rule, the two composition
\* phrases, a space and a letter
LabelParts ==
    {
      <<"u8425", "u4E1A", "u6536", "u5165">>,  \* "营业收入"
      <<"u5F52", "u6BCD", "u51C0", "u5229", "u6DA6">>,  \* "归母净利润"
      <<"u8D44", "u4EA7", "u603B", "u8BA1">>,  \* "资产总计"
      <<"u8425", "u4E1A", "u6210", "u672C">>,  \* "营业成本"
      <<"u9500", "u552E", "u8D39", "u7528">>,  \* "销售费用"
      <<"u6240", "u5F97", "u7A0E">>,  \* "所得税"
      <<"u8D44", "u672C", "u5F00", "u652F">>,  \* "资本开支"
      <<"u589E", "u957F", "u7387">>,  \* "增长率"
      <<"u51C0", "u8D44", "u4EA7">>,  \* "净资产"
      <<"u4E3B", "u8425", "u4E1A", "u52A1", "u6784", "u6210">>,  \* "主营业务构成"
      <<"B", "u", "s", "i", "n", "e", "s", "s", " ", "C", "o", "m", "p", "o", "s", "i", "t", "i", "o", "n">>,
      <<" ">>,
      <<"x">>
    }

\* the most parts of a label
MaxLabelParts == 2

RevenueZh == <<"u8425", "u4E1A", "u6536", "u5165">>  \* "营业收入"

GrowthRateZh == <<"u589E", "u957F", "u7387">>  \* "增长率"

\* every positive keyword of every rule
AllPositives ==
    UNION {{METRIC_RULES[i].positive[j] : j \in 1..Len(METRIC_RULES[i].positive)} :
             i \in 1..Len(METRIC_RULES)}

\* labels holding "营业收入" and "增长率" next to a positive keyword of a rule
GrowthLabels ==
    {RevenueZh \o GrowthRateZh \o p : p \in AllPositives}
      \cup {p \o RevenueZh \o GrowthRateZh : p \in AllPositives}
      \cup {GrowthRateZh \o p \o RevenueZh : p \in AllPositives}

Labels == Joined(LabelParts, MaxLabelParts) \cup GrowthLabels

\* what stands between the parentheses of the texts given to cleanNumber
NumberBodies ==
    {
      <<>>,
      <<"5", "0", "0">>,
      <<"1", ",", "0", "0", "0">>,
      <<"1", "2", ".", "5">>,
      <<".", "5">>,
      <<"0">>,
      <<"-", "3">>,
      <<"a", "b", "c">>,
      <<"n", "/", "a">>,
      <<"-">>,
      <<"u2014">>,  \* "—"
      <<"I", "n", "f", "i", "n", "i", "t", "y">>,
      <<"1", "e", "2">>
    }

\* nothing, or a currency sign
CurrencySigns ==
    {
      <<>>,
      <<"$">>,
      <<"u00A5">>  \* "¥"
    }

\* the most parentheses on one side of a text
MaxParens == 2

\* k times the character ch
Repeated(ch, k) == [i \in 1..k |-> ch]

\* the texts given to cleanNumber: white space, opening parentheses, a
\* currency sign, a body, a percent sign, closing parentheses, white space
NumberTexts ==
    {lead \o Repeated("(", open) \o cur \o body \o pct \o Repeated(")", close) \o trail :
        lead \in {<<>>, <<" ">>}, open \in 0..MaxParens, cur \in CurrencySigns,
        body \in NumberBodies, pct \in {<<>>, <<"%">>}, close \in 0..MaxParens,
        trail \in {<<>>, <<" ">>}}

\* the fragments of the texts given to parseBusinessComposition
CompositionParts ==
    {
      <<"A", ":", "1">>,
      <<"B", ":", "2">>,
      <<"A", ":", "a", "b", "c">>,
      <<"A", ":">>,
      <<":", "5">>,
      <<"B">>,
      <<"C", ":", "I", "n", "f", "i", "n", "i", "t", "y">>,
      <<"A", ":", "1", ":", "2">>,
      <<" ", "D", " ", ":", " ", "3", " ">>,
      <<"E", "uFF1A", "4">>,  \* "E：4"
      <<"F", ":", "5", "0", "%">>,
      <<"G", ":", "%">>,
      <<"H", ":", "1", ":", "2", "%">>,
      <<"K", ":", "(", "1", ":", "2", ")">>
    }

\* the most fragments of a composition text
MaxFragments == 2

\* the texts of at most n fragments with a separator between two of them
RECURSIVE Separated(_)
Separated(n) ==
    IF n = 0 THEN {<<>>}
    ELSE IF n = 1 THEN {<<>>} \cup CompositionParts
    ELSE LET shorter == Separated(n - 1) \ {<<>>}
         IN  Separated(n - 1)
               \cup {s \o sep \o p : s \in shorter, sep \in {<<";">>, <<"uFF1B">>},
                                     p \in CompositionParts}

CompositionTexts == Separated(MaxFragments)

\* two year-like cells: 项目 | 2021 | 2022
RowYears ==
    <<StrCell(<<"u9879", "u76EE">>),
      StrCell(<<"2", "0", "2", "1">>),
      StrCell(<<"2", "0", "2", "2">>)>>

\* three metric labels: 年份 | 营业收入 | 归母净利润 | 资产总计
RowMetrics ==
    <<StrCell(<<"u5E74", "u4EFD">>),
      StrCell(<<"u8425", "u4E1A", "u6536", "u5165">>),
      StrCell(<<"u5F52", "u6BCD", "u51C0", "u5229", "u6DA6">>),
      StrCell(<<"u8D44", "u4EA7", "u603B", "u8BA1">>)>>

\* two metric labels and the composition phrase: 年份 | 营业收入 | 资产总计 | 主营业务构成
RowMarker ==
    <<StrCell(<<"u5E74", "u4EFD">>),
      StrCell(<<"u8425", "u4E1A", "u6536", "u5165">>),
      StrCell(<<"u8D44", "u4EA7", "u603B", "u8BA1">>),
      StrCell(<<"u4E3B", "u8425", "u4E1A", "u52A1", "u6784", "u6210">>)>>

\* two metric labels: 年份 | 营业收入 | 资产总计
RowTwoMetrics ==
    <<StrCell(<<"u5E74", "u4EFD">>),
      StrCell(<<"u8425", "u4E1A", "u6536", "u5165">>),
      StrCell(<<"u8D44", "u4EA7", "u603B", "u8BA1">>)>>

\* two year-like cells and three metric labels: 2021 | 2022 | 营业收入 | 归母净利润 | 资产总计
RowBoth ==
    <<StrCell(<<"2", "0", "2", "1">>),
      StrCell(<<"2", "0", "2", "2">>),
      StrCell(<<"u8425", "u4E1A", "u6536", "u5165">>),
      StrCell(<<"u5F52", "u6BCD", "u51C0", "u5229", "u6DA6">>),
      StrCell(<<"u8D44", "u4EA7", "u603B", "u8BA1">>)>>

\* one year-like cell and no label: 2020 | 800 | x
RowData ==
    <<StrCell(<<"2", "0", "2", "0">>),
      StrCell(<<"8", "0", "0">>),
      StrCell(<<"x">>)>>

DetectionRows == {RowYears, RowMetrics, RowMarker, RowTwoMetrics, RowBoth, RowData}

\* the most rows of a sheet given to the detection
MaxRows == 3

\* the sheets of at most n of these rows
RECURSIVE SheetsOf(_)
SheetsOf(n) ==
    IF n = 0 THEN {<<>>}
    ELSE LET shorter == SheetsOf(n - 1)
         IN  shorter \cup {Append(s, r) : s \in shorter, r \in DetectionRows}

DetectionSheets == SheetsOf(MaxRows)

---------------------------------------------------------------------------
(* The helpers called on their own: one call of one helper on one argument *)

Callees == {"identifyMetric", "cleanNumber", "parseBusinessComposition", "detectStrategy"}

\* the arguments a helper is called on
ArgsOf(f) ==
    IF f = "identifyMetric" THEN Labels
    ELSE IF f = "cleanNumber" THEN NumberTexts
    ELSE IF f = "parseBusinessComposition" THEN CompositionTexts
    ELSE DetectionSheets

\* extractFinancialData is not called; a helper is about to be
InitHelpers ==
    /\ files = [c \in Calls |-> <<>>]
    /\ pc = [c \in Calls |-> "off"]
    /\ fileIndex = [c \in Calls |-> 0]
    /\ sheetIndex = [c \in Calls |-> 0]
    /\ rows = [c \in Calls |-> <<>>]
    /\ detectedStrategy = [c \in Calls |-> null]
    /\ headerRowIndex = [c \in Calls |-> -1]
    /\ yearDataMap = [s \in Calls |-> <<>>]
    /\ result = [c \in Calls |-> <<>>]
    /\ error = [c \in Calls |-> NoError]
    /\ callee \in Callees
    /\ arg \in ArgsOf(callee)
    /\ ret = <<>>
    /\ returned = FALSE
    /\ NoApp

\* identifyMetric(label)
CallIdentifyMetric ==
    /\ callee = "identifyMetric" /\ ~returned
    /\ ret' = identifyMetric(arg)
    /\ returned' = TRUE
    /\ UNCHANGED <<callee, arg>>
    /\ UNCHANGED <<callVars, appVars, nodes>>

\* cleanNumber(text)
CallCleanNumber ==
    /\ callee = "cleanNumber" /\ ~returned
    /\ ret' = cleanNumber(StrCell(arg))
    /\ returned' = TRUE
    /\ UNCHANGED <<callee, arg>>
    /\ UNCHANGED <<callVars, appVars, nodes>>

\* parseBusinessComposition(text)
CallParseBusinessComposition ==
    /\ callee = "parseBusinessComposition" /\ ~returned
    /\ ret' = parseBusinessComposition(arg)
    /\ returned' = TRUE
    /\ UNCHANGED <<callee, arg>>
    /\ UNCHANGED <<callVars, appVars, nodes>>

\* the strategy detection of extractFinancialData on the rows of one sheet
CallDetectStrategy ==
    /\ callee = "detectStrategy" /\ ~returned
    /\ ret' = detectStrategy(arg)
    /\ returned' = TRUE
    /\ UNCHANGED <<callee, arg>>
    /\ UNCHANGED <<callVars, appVars, nodes>>

NextHelpers ==
    \/ CallIdentifyMetric
    \/ CallCleanNumber
    \/ CallParseBusinessComposition
    \/ CallDetectStrategy

SpecHelpers == InitHelpers /\ [][NextHelpers]_vars


---------------------------------------------------------------------------
(* App and the ProjectList it renders.  A project is [id, data], data the  *)
(* number of year records extractFinancialData resolved with; its name and *)
(* creation date are left out.  A handler runs between two renders, so it  *)
(* reads the current state; the part of handleAnalyzeComplete after its    *)
(* await reads the editingProjectId of the render that called it.          *)

\* the ids generateId returns, by call
GeneratedIds == <<"p1", "p2", "p3", "p4">>

generateId == GeneratedIds[nextId]

\* the most projects App creates
MaxProjects == 1

\* the most calls of handleAnalyzeComplete that wait at a time
MaxPending == 2

\* what extractFinancialData resolves with, as the number of its year
\* records
ExtractedData == {0, 1}

\* the message of the error thrown for an empty result
NoDataMessage == "no valid financial data"

\* the message of the error extractFinancialData rejects with
RejectionMessage == "Failed to parse file"

\* what localStorage holds under 'dupont_projects' when App mounts
SavedProjects == {<<>>, <<[id |-> "saved", data |-> 2]>>}

IdsOf(list) == {list[i].id : i \in 1..Len(list)}

\* projects.find(p => p.id === activeProjectId), as the set of what it finds
getActiveProject ==
    {projects[i] : i \in {j \in 1..Len(projects) : projects[j].id = activeProjectId}}

\* projects.filter(p => compareProjectIds.includes(p.id)), its ids
getCompareProjects == {id \in IdsOf(projects) : id \in compareProjectIds}

\* no call of extractFinancialData or of a helper is modelled
NoExtraction ==
    /\ files = [c \in Calls |-> <<>>]
    /\ pc = [c \in Calls |-> "off"]
    /\ fileIndex = [c \in Calls |-> 0]
    /\ sheetIndex = [c \in Calls |-> 0]
    /\ rows = [c \in Calls |-> <<>>]
    /\ detectedStrategy = [c \in Calls |-> null]
    /\ headerRowIndex = [c \in Calls |-> -1]
    /\ yearDataMap = [s \in Calls |-> <<>>]
    /\ result = [c \in Calls |-> <<>>]
    /\ error = [c \in Calls |-> NoError]
    /\ callee = "none" /\ arg = <<>> /\ ret = <<>> /\ returned = FALSE

\* App has mounted
InitApp ==
    /\ NoExtraction
    /\ projects \in SavedProjects
    /\ view = "LIST"
    /\ activeProjectId = null
    /\ editingProjectId = null
    /\ compareProjectIds = {}
    /\ status = "IDLE"
    /\ appError = null
    /\ pending = EmptyBag
    /\ nextId = 1
    /\ selectedIds = {}
    /\ deleteConfirmId = null
    /\ nodes = <<>>

\* ProjectList is rendered in the view LIST only: its state is lost when
\* the view becomes nextView, another one
ProjectListAfter(nextView) ==
    IF nextView = "LIST"
    THEN UNCHANGED <<selectedIds, deleteConfirmId>>
    ELSE selectedIds' = {} /\ deleteConfirmId' = null

\* onAddProject of ProjectList
handleStartUpload ==
    /\ view = "LIST"
    /\ editingProjectId' = null
    /\ view' = "UPLOAD"
    /\ appError' = null
    /\ status' = "IDLE"
    /\ ProjectListAfter("UPLOAD")
    /\ UNCHANGED <<projects, activeProjectId, compareProjectIds, pending, nextId>>
    /\ UNCHANGED <<callVars, fnVars, nodes>>

\* onRefresh of the Dashboard, rendered for the active project
handleRefreshProject ==
    /\ view = "DETAIL" /\ getActiveProject # {}
    /\ activeProjectId # null
    /\ editingProjectId' = activeProjectId
    /\ view' = "UPLOAD"
    /\ appError' = null
    /\ status' = "IDLE"
    /\ UNCHANGED <<projects, activeProjectId, compareProjectIds, pending, nextId,
                   selectedIds, deleteConfirmId>>
    /\ UNCHANGED <<callVars, fnVars, nodes>>

\* onAnalyze of the FileUploader, whose button is disabled while isAnalyzing:
\* handleAnalyzeComplete up to its await
handleAnalyzeComplete ==
    /\ view = "UPLOAD" /\ status # "ANALYZING"
    /\ BagCardinality(pending) < MaxPending
    /\ status' = "ANALYZING"
    /\ appError' = null
    /\ pending' = pending (+) SetToBag({editingProjectId})
    /\ UNCHANGED <<projects, view, activeProjectId, editingProjectId,
                   compareProjectIds, nextId, selectedIds, deleteConfirmId>>
    /\ UNCHANGED <<callVars, fnVars, nodes>>

\* the catch clause of handleAnalyzeComplete
Caught(message) ==
    /\ appError' = message
    /\ status' = "ERROR"
    /\ UNCHANGED <<projects, view, activeProjectId, editingProjectId,
                   compareProjectIds, nextId, selectedIds, deleteConfirmId>>

\* (a variant: an empty result is stored like any other)
Resumed_NoLengthTest(editing, extractedData) ==
    /\ IF editing # null
       THEN /\ projects' = [i \in 1..Len(projects) |->
                              IF projects[i].id = editing
                              THEN [projects[i] EXCEPT !.data = extractedData]
                              ELSE projects[i]]
            /\ activeProjectId' = editing
            /\ editingProjectId' = null
            /\ UNCHANGED nextId
       ELSE /\ nextId <= MaxProjects
            /\ projects' = <<[id |-> generateId, data |-> extractedData]>> \o projects
            /\ activeProjectId' = generateId
            /\ nextId' = nextId + 1
            /\ UNCHANGED editingProjectId
    /\ status' = "SUCCESS"
    /\ view' = "DETAIL"
    /\ ProjectListAfter("DETAIL")
    /\ UNCHANGED <<compareProjectIds, appError>>

\* handleAnalyzeComplete after its await returned extractedData, for the
\* call that closed over editingProjectId = editing
Resumed(editing, extractedData) ==
    IF extractedData = 0 THEN Caught(NoDataMessage)
    ELSE /\ IF editing # null
            THEN /\ projects' = [i \in 1..Len(projects) |->
                                   IF projects[i].id = editing
                                   THEN [projects[i] EXCEPT !.data = extractedData]
                                   ELSE projects[i]]
                 /\ activeProjectId' = editing
                 /\ editingProjectId' = null
                 /\ UNCHANGED nextId
            ELSE /\ nextId <= MaxProjects
                 /\ projects' = <<[id |-> generateId, data |-> extractedData]>> \o projects
                 /\ activeProjectId' = generateId
                 /\ nextId' = nextId + 1
                 /\ UNCHANGED editingProjectId
         /\ status' = "SUCCESS"
         /\ view' = "DETAIL"
         /\ ProjectListAfter("DETAIL")
         /\ UNCHANGED <<compareProjectIds, appError>>

\* the promise of extractFinancialData resolves
ExtractionResolves(editing, extractedData) ==
    /\ BagIn(editing, pending)
    /\ pending' = pending (-) SetToBag({editing})
    /\ Resumed(editing, extractedData)
    /\ UNCHANGED <<callVars, fnVars, nodes>>

\* the promise of extractFinancialData rejects
ExtractionRejects(editing) ==
    /\ BagIn(editing, pending)
    /\ pending' = pending (-) SetToBag({editing})
    /\ Caught(RejectionMessage)
    /\ UNCHANGED <<callVars, fnVars, nodes>>

\* the confirming button of ProjectList: onDeleteProject(id), then
\* setDeleteConfirmId(null)
handleDeleteProject(id) ==
    /\ view = "LIST" /\ deleteConfirmId = id /\ id \in IdsOf(projects)
    /\ projects' = SelectSeq(projects, LAMBDA p : p.id # id)
    /\ IF activeProjectId = id
       THEN view' = "LIST" /\ activeProjectId' = null
       ELSE UNCHANGED <<view, activeProjectId>>
    /\ deleteConfirmId' = null
    /\ UNCHANGED <<editingProjectId, compareProjectIds, status, appError, pending,
                   nextId, selectedIds>>
    /\ UNCHANGED <<callVars, fnVars, nodes>>

\* the bin button of a project card, or the button that declines
setDeleteConfirmId(id) ==
    /\ view = "LIST"
    /\ IF id = null THEN deleteConfirmId # null
       ELSE id \in IdsOf(projects) /\ deleteConfirmId # id
    /\ deleteConfirmId' = id
    /\ UNCHANGED <<projects, view, activeProjectId, editingProjectId,
                   compareProjectIds, status, appError, pending, nextId, selectedIds>>
    /\ UNCHANGED <<callVars, fnVars, nodes>>

\* the tick box of a project card
toggleSelection(id) ==
    /\ view = "LIST" /\ id \in IdsOf(projects)
    /\ selectedIds' = IF id \in selectedIds THEN selectedIds \ {id}
                      ELSE selectedIds \cup {id}
    /\ UNCHANGED <<projects, view, activeProjectId, editingProjectId,
                   compareProjectIds, status, appError, pending, nextId,
                   deleteConfirmId>>
    /\ UNCHANGED <<callVars, fnVars, nodes>>

\* the button of ProjectList that drops the selection
ClearSelection ==
    /\ view = "LIST" /\ projects # <<>> /\ selectedIds # {}
    /\ selectedIds' = {}
    /\ UNCHANGED <<projects, view, activeProjectId, editingProjectId,
                   compareProjectIds, status, appError, pending, nextId,
                   deleteConfirmId>>
    /\ UNCHANGED <<callVars, fnVars, nodes>>

\* handleCompare of ProjectList, and the handleCompareProjects it calls
handleCompare ==
    /\ view = "LIST"
    /\ Cardinality(selectedIds) >= 2
    /\ compareProjectIds' = selectedIds
    /\ view' = "COMPARE"
    /\ ProjectListAfter("COMPARE")
    /\ UNCHANGED <<projects, activeProjectId, editingProjectId, status, appError,
                   pending, nextId>>
    /\ UNCHANGED <<callVars, fnVars, nodes>>

\* a click on a project card
handleSelectProject(id) ==
    /\ view = "LIST" /\ id \in IdsOf(projects)
    /\ activeProjectId' = id
    /\ view' = "DETAIL"
    /\ ProjectListAfter("DETAIL")
    /\ UNCHANGED <<projects, editingProjectId, compareProjectIds, status, appError,
                   pending, nextId>>
    /\ UNCHANGED <<callVars, fnVars, nodes>>

\* setView('LIST'): the logo and the button of the navigation bar, onBack
BackToList ==
    /\ view # "LIST"
    /\ view' = "LIST"
    /\ UNCHANGED <<projects, activeProjectId, editingProjectId, compareProjectIds,
                   status, appError, pending, nextId, selectedIds, deleteConfirmId>>
    /\ UNCHANGED <<callVars, fnVars, nodes>>

\* onCancel of the FileUploader
onCancel ==
    /\ view = "UPLOAD"
    /\ editingProjectId' = null
    /\ view' = IF activeProjectId # null THEN "DETAIL" ELSE "LIST"
    /\ UNCHANGED <<projects, activeProjectId, compareProjectIds, status, appError,
                   pending, nextId, selectedIds, deleteConfirmId>>
    /\ UNCHANGED <<callVars, fnVars, nodes>>

NextApp ==
    \/ handleStartUpload
    \/ handleRefreshProject
    \/ handleAnalyzeComplete
    \/ \E editing \in BagToSet(pending), extractedData \in ExtractedData :
          ExtractionResolves(editing, extractedData)
    \/ \E editing \in BagToSet(pending) : ExtractionRejects(editing)
    \/ \E id \in IdsOf(projects) : handleDeleteProject(id)
    \/ \E id \in IdsOf(projects) \cup {null} : setDeleteConfirmId(id)
    \/ \E id \in IdsOf(projects) : toggleSelection(id)
    \/ ClearSelection
    \/ handleCompare
    \/ \E id \in IdsOf(projects) : handleSelectProject(id)
    \/ BackToList
    \/ onCancel

SpecApp == InitApp /\ [][NextApp]_vars

---------------------------------------------------------------------------
(* ProfitSankey: the node list and its editors.  A node is                 *)
(* [id, type, parentId, order]; its name, value and colour are left out,   *)
(* and a source or the root has the parentId null.  resetToDefault gives   *)
(* the first list, and again that list when its button is pressed.         *)

\* the ids generateId of ProfitSankey returns
NewIds == {"n1", "n2", "n3", "n4", "n5", "n6", "n7", "n8"}

\* the most nodes the list has
MaxNodes == 4

SourceIds == <<"source_0", "source_1", "source_2">>

\* the four items of resetToDefault, in the order of allNodes
DefaultItems ==
    << [id |-> "net_profit",   type |-> "item", parentId |-> "revenue", order |-> 0],
       [id |-> "tax_expenses", type |-> "item", parentId |-> "revenue", order |-> 1],
       [id |-> "op_expenses",  type |-> "item", parentId |-> "revenue", order |-> 2],
       [id |-> "cost_revenue", type |-> "item", parentId |-> "revenue", order |-> 3] >>

\* the year records ProfitSankey is given: the number of items of the
\* business composition, each of a value above 0.001, and the items of
\* resetToDefault whose value is above 0.001
SankeyData ==
    { [businessComposition |-> 2, positive |-> {}],
      [businessComposition |-> 0, positive |-> {"net_profit", "cost_revenue"}] }

resetToDefault(data) ==
    (IF data.businessComposition > 0
     THEN [index \in 1..data.businessComposition |->
             [id |-> SourceIds[index], type |-> "source", parentId |-> null,
              order |-> index - 1]]
     ELSE <<[id |-> "default_source", type |-> "source", parentId |-> null,
             order |-> 0]>>)
    \o <<[id |-> "revenue", type |-> "root", parentId |-> null, order |-> 0]>>
    \o SelectSeq(DefaultItems, LAMBDA n : n.id \in data.positive)

\* ProfitSankey has mounted and its effect has run
InitSankey ==
    /\ NoExtraction
    /\ projects = <<>> /\ view = "LIST"
    /\ activeProjectId = null /\ editingProjectId = null
    /\ compareProjectIds = {} /\ status = "IDLE" /\ appError = null
    /\ pending = EmptyBag /\ nextId = 1
    /\ selectedIds = {} /\ deleteConfirmId = null
    /\ \E data \in SankeyData : nodes = resetToDefault(data)

\* nodes.findIndex(n => n.id === id), from 1, 0 for none
findIndex(list, id) ==
    IF \E i \in 1..Len(list) : list[i].id = id
    THEN CHOOSE i \in 1..Len(list) :
            list[i].id = id /\ \A j \in 1..(i - 1) : list[j].id # id
    ELSE 0

\* list.sort((a, b) => a.order - b.order), a stable sort
SortByOrder(list) ==
    [k \in 1..Len(list) |->
        list[CHOOSE i \in 1..Len(list) :
                Cardinality({j \in 1..Len(list) :
                    \/ list[j].order < list[i].order
                    \/ list[j].order = list[i].order /\ j < i}) = k - 1]]

\* the siblings moveNode finds for node
Siblings(node) ==
    IF node.type = "source"
    THEN SortByOrder(SelectSeq(nodes, LAMBDA n : n.type = "source"))
    ELSE IF node.type = "item"
    THEN SortByOrder(SelectSeq(nodes,
             LAMBDA n : n.type = "item" /\ n.parentId = node.parentId))
    ELSE <<>>

\* {...n, ...updates}
Spread(n, updates) ==
    [f \in DOMAIN n |-> IF f \in DOMAIN updates THEN updates[f] ELSE n[f]]

\* the list updateNode gives to setNodes: made from the nodes of the render
\* whose handler calls it
updateNode(id, updates) ==
    [i \in 1..Len(nodes) |->
        IF nodes[i].id = id THEN Spread(nodes[i], updates) ELSE nodes[i]]

\* the state after a handler called setNodes with these lists in turn: each
\* call replaces the list of the one before
AfterSetNodes(lists) == lists[Len(lists)]

\* the nodes with an editor
Editable == {nodes[i].id : i \in {j \in 1..Len(nodes) : nodes[j].type # "root"}}

\* the nodes the parent box of an item offers
availableParents(id) ==
    {nodes[i].id : i \in {j \in 1..Len(nodes) :
                            nodes[j].type \in {"root", "item"} /\ nodes[j].id # id}}

sankeyRest == <<callVars, fnVars, appVars>>

addNode(type) ==
    /\ Len(nodes) < MaxNodes
    /\ LET id == CHOOSE n \in NewIds : n \notin IdsOf(nodes)
       IN nodes' = Append(nodes,
              [id |-> id, type |-> type,
               parentId |-> IF type = "source" THEN null ELSE "revenue",
               order |-> Len(nodes)])
    /\ UNCHANGED sankeyRest

\* the parent box of the editor of an item
onUpdate(id, parentId) ==
    /\ id \in Editable /\ nodes[findIndex(nodes, id)].type = "item"
    /\ parentId \in availableParents(id)
    /\ nodes' = AfterSetNodes(<<updateNode(id, [parentId |-> parentId])>>)
    /\ UNCHANGED sankeyRest

removeNode(id) ==
    /\ id \in Editable
    /\ nodes' = SelectSeq(nodes, LAMBDA n : n.id # id)
    /\ UNCHANGED sankeyRest

moveNode(id, direction) ==
    /\ id \in Editable
    /\ LET node == nodes[findIndex(nodes, id)]
           siblings == Siblings(node)
           siblingIndex == findIndex(siblings, id)
       IN IF direction = "up" /\ siblingIndex > 1
          THEN nodes' = AfterSetNodes(
                   << updateNode(node.id, [order |-> siblings[siblingIndex - 1].order]),
                      updateNode(siblings[siblingIndex - 1].id, [order |-> node.order]) >>)
          ELSE IF direction = "down" /\ siblingIndex < Len(siblings)
          THEN nodes' = AfterSetNodes(
                   << updateNode(node.id, [order |-> siblings[siblingIndex + 1].order]),
                      updateNode(siblings[siblingIndex + 1].id, [order |-> node.order]) >>)
          ELSE UNCHANGED nodes
    /\ UNCHANGED sankeyRest

NextSankey ==
    \/ \E type \in {"source", "item"} : addNode(type)
    \/ \E id \in Editable : \E parentId \in availableParents(id) : onUpdate(id, parentId)
    \/ \E id \in Editable : removeNode(id)
    \/ \E id \in Editable, direction \in {"up", "down"} : moveNode(id, direction)

SpecSankey == InitSankey /\ [][NextSankey]_vars
---------------------------------------------------------------------------
(* What a call has read so far, as the claims below speak of it *)

MetricKeys == {METRIC_RULES[i].key : i \in 1..Len(METRIC_RULES)}

\* the sheets call c has been through, in source order
MergedSheets(c) ==
    LET whole == IF pc[c] \in {"off", "idle"} THEN 0
                 ELSE IF pc[c] \in {"finalize", "done"} THEN Len(files[c])
                 ELSE fileIndex[c] - 1
        part == IF pc[c] = "sheet"
                THEN SubSeq(workbook(c).sheets, 1, sheetIndex[c] - 1)
                ELSE <<>>
    IN  Concat([k \in 1..whole |-> FileSystem[files[c][k]].sheets]) \o part

\* the writes of a sequence of sheets, in source order
OpsOf(sheets) == Concat([i \in 1..Len(sheets) |-> SheetOps(sheets[i])])

\* the places in a sequence of writes that assign property key of a year
WritesTo(log, year, key) ==
    {i \in 1..Len(log) :
        log[i].op \in {"set", "comp"} /\ log[i].year = year /\ log[i].key = key}

\* the index (from 1) of the first file of call c that cannot be read, 0 if none
FirstUnreadable(c) ==
    LET bad == {k \in 1..Len(files[c]) : ~FileSystem[files[c][k]].readable}
    IN  IF bad = {} THEN 0 ELSE MinOf(bad)

YearsOf(records) == {records[i].year : i \in 1..Len(records)}

Year(a, b, c, d) == <<DigitChars[a + 1], DigitChars[b + 1], DigitChars[c + 1], DigitChars[d + 1]>>

\* a returned record with exactly these properties
Record4(year, revenue, netProfitParent, totalAssets, equityParent) ==
    [year |-> year, businessComposition |-> <<>>,
     revenue |-> Int2Num(revenue), netProfitParent |-> Int2Num(netProfitParent),
     totalAssets |-> Int2Num(totalAssets), equityParent |-> Int2Num(equityParent)]

---------------------------------------------------------------------------
(* Claims *)

\* C1 (as stated): the call on one file holding the sheet
\* [[year, revenue, net profit of the parent], [2020, 800, 80], [2021, 900, 95]]
\* returns the records of 2020 (revenue 800, netProfitParent 80) and 2021
\* (revenue 900, netProfitParent 95), in this order, with totalAssets 0 and
\* equityParent 0.
C1_ScenarioB_AsStated ==
    \A c \in Calls :
        (pc[c] = "done" /\ files[c] = <<"b">>) =>
            result[c] = <<Record4(Year(2, 0, 2, 0), 800, 80, 0, 0),
                          Record4(Year(2, 0, 2, 1), 900, 95, 0, 0)>>

\* C1 (amended): the call on that file returns the empty sequence; no row of
\* the sheet has two year-like cells and its header row has two metric
\* labels, one short of a vertical header, so no strategy is detected and
\* nothing is written.
C1_ScenarioB ==
    \A c \in Calls :
        /\ (pc[c] \in {"finalize", "done"} /\ files[c] = <<"b">>) =>
              /\ rows[c] = SheetB
              /\ detectedStrategy[c] = null
              /\ headerRowIndex[c] = -1
              /\ yearDataMap[yearDataMapOf(c)] = <<>>
        /\ (pc[c] = "done" /\ files[c] = <<"b">>) => result[c] = <<>>

C1_Witness == \E c \in Calls : pc[c] = "done" /\ files[c] = <<"b">>

\* C2: a sheet whose first row is [year, revenue, net profit, total assets]
\* is detected as VERTICAL with header row 0.
\* (It is not: "净利润" alone contains no positive keyword of a rule, so two
\* cells of the row identify as metrics, one short of the three needed.)
C2_VerticalHeader ==
    \A c \in Calls :
        (rows[c] # <<>> /\ rows[c][1] = SheetC[1]) =>
            (detectedStrategy[c] = "VERTICAL" /\ headerRowIndex[c] = 0)

\* a call went through such a sheet, counted two metric cells in its first
\* row and detected no strategy
C2_Witness ==
    \E c \in Calls :
        /\ pc[c] = "done"
        /\ rows[c] # <<>> /\ rows[c][1] = SheetC[1]
        /\ keywordMatchCount(rows[c][1]) = 2
        /\ detectedStrategy[c] = null

\* C3: the call on one file holding the sheet
\* [[item, 2021, 2022], [revenue, 1000, 1200], [total assets, 5000, 5500]]
\* returns exactly the records {2021, revenue 1000, totalAssets 5000,
\* netProfitParent 0, equityParent 0} and {2022, revenue 1200, totalAssets
\* 5500, netProfitParent 0, equityParent 0}, in this order.
C3_ScenarioA ==
    \A c \in Calls :
        (pc[c] = "done" /\ files[c] = <<"a">>) =>
            result[c] = <<Record4(Year(2, 0, 2, 1), 1000, 0, 5000, 0),
                          Record4(Year(2, 0, 2, 2), 1200, 0, 5500, 0)>>

C3_Witness ==
    \E c \in Calls :
        /\ pc[c] = "done" /\ files[c] = <<"a">>
        /\ detectedStrategy[c] = "HORIZONTAL" /\ headerRowIndex[c] = 0

\* C4: a year is in the result if and only if, once all inputs are
\* processed, its partial record has revenue, netProfitParent or totalAssets
\* defined, that is, some row or column of the input wrote one of them for
\* the year; a year with only other metrics or only a composition is absent.
C4_FilterIff ==
    \A c \in Calls :
        pc[c] = "done" =>
            LET log == OpsOf(MergedSheets(c))
            IN  \A y \in YearsOf(log) \cup YearsOf(result[c]) :
                    (y \in YearsOf(result[c]))
                      <=> (\/ WritesTo(log, y, "revenue") # {}
                           \/ WritesTo(log, y, "netProfitParent") # {}
                           \/ WritesTo(log, y, "totalAssets") # {})

\* a call returned some years and left out one that has equityParent and
\* capex only and one that has a composition but none of the three
C4_Witness ==
    \E c \in Calls :
        /\ pc[c] = "done"
        /\ result[c] # <<>>
        /\ LET map == yearDataMap[yearDataMapOf(c)]
           IN  /\ \E j \in 1..Len(map) :
                     /\ map[j].year \notin YearsOf(result[c])
                     /\ Defined(map[j], "equityParent")
                     /\ Defined(map[j], "capex")
               /\ \E j \in 1..Len(map) :
                     /\ map[j].year \notin YearsOf(result[c])
                     /\ map[j].businessComposition # <<>>

\* C5: in every returned record revenue, netProfitParent, totalAssets and
\* equityParent are defined, each the last value written for the year or 0
\* when none was; every other metric is defined only if it was written, with
\* the last value written.
C5_Defaults ==
    \A c \in Calls :
        pc[c] = "done" =>
            LET log == OpsOf(MergedSheets(c))
            IN  \A i \in 1..Len(result[c]) : \A key \in MetricKeys :
                    LET d == result[c][i]
                        w == WritesTo(log, d.year, key)
                    IN  IF w # {}
                        THEN Defined(d, key) /\ d[key] = log[MaxOf(w)].val
                        ELSE IF key \in {"revenue", "netProfitParent",
                                         "totalAssets", "equityParent"}
                        THEN Defined(d, key) /\ d[key] = Zero
                        ELSE ~Defined(d, key)

\* a returned record with a defaulted equityParent, a written capex and no
\* costOfRevenue
C5_Witness ==
    \E c \in Calls :
        /\ pc[c] = "done"
        /\ \E i \in 1..Len(result[c]) :
              /\ WritesTo(OpsOf(MergedSheets(c)), result[c][i].year, "equityParent") = {}
              /\ result[c][i].equityParent = Zero
              /\ Defined(result[c][i], "capex")
              /\ ~Defined(result[c][i], "costOfRevenue")

\* C6: the returned sequence is strictly ascending by parseInt(year), so no
\* year occurs twice.
C6_SortedStrictly ==
    \A c \in Calls :
        pc[c] = "done" =>
            \A i \in 1..(Len(result[c]) - 1) :
                parseInt(result[c][i].year) < parseInt(result[c][i + 1].year)

\* a call returned three or more records whose years were not first met in
\* ascending order; the first one, of year 0999, is not the first of
\* Object.values
C6_Witness ==
    \E c \in Calls :
        /\ pc[c] = "done"
        /\ Len(result[c]) >= 3
        /\ result[c][1].year = Year(0, 9, 9, 9)
        /\ LET map == yearDataMap[yearDataMapOf(c)]
           IN  /\ \E j \in 1..(Len(map) - 1) :
                     parseInt(map[j].year) > parseInt(map[j + 1].year)
               /\ ObjectValues(map)[1].year # Year(0, 9, 9, 9)

\* v >= 0, which NaN does not satisfy
NonNegative(v) == v.k \in {"num", "inf"} /\ v.m >= 0

\* C7: every capex value in a partial-record map and in a returned sequence
\* is non-negative.
\* (A capex cell "%" is stored as Math.abs(parseFloat("%") / 100), NaN.)
C7_CapexNonNegative ==
    /\ \A s \in Calls : \A j \in 1..Len(yearDataMap[s]) :
          Defined(yearDataMap[s][j], "capex") => NonNegative(yearDataMap[s][j].capex)
    /\ \A c \in Calls : \A i \in 1..Len(result[c]) :
          Defined(result[c][i], "capex") => NonNegative(result[c][i].capex)

\* a call returned capex 300 for 2023, written by the horizontal branch from
\* "-300", and capex 10 for 2022, written by the vertical branch from "(10)"
C7_Witness ==
    \E c \in Calls :
        /\ pc[c] = "done"
        /\ files[c] = <<"h", "v">>
        /\ \E i \in 1..Len(result[c]) :
              result[c][i].year = Year(2, 0, 2, 3) /\ result[c][i].capex = Int2Num(300)
        /\ \E i \in 1..Len(result[c]) :
              result[c][i].year = Year(2, 0, 2, 2) /\ result[c][i].capex = Int2Num(10)

\* C8: writes are applied in source order and the last write wins: at every
\* point of a call its map holds, for each year and property, the value of
\* the last write among the sheets read so far (files in the given order,
\* sheets in workbook order, rows top to bottom), every sheet of a file being
\* merged before the next file is read (a property never written stays
\* undefined until the defaults are filled in); the result holds these values.
C8_LastWriteWins ==
    \A c \in Calls :
        pc[c] # "off" =>
            LET log == OpsOf(MergedSheets(c))
                map == yearDataMap[yearDataMapOf(c)]
            IN  /\ YearsOf(map) = YearsOf(log)
                /\ \A j \in 1..Len(map) : \A key \in MetricKeys :
                      LET w == WritesTo(log, map[j].year, key)
                      IN  IF w = {}
                          THEN Defined(map[j], key) =>
                                 (pc[c] = "done" /\ map[j][key] = Zero)
                          ELSE /\ Defined(map[j], key)
                               /\ map[j][key] = log[MaxOf(w)].val
                /\ \A j \in 1..Len(map) :
                      LET w == WritesTo(log, map[j].year, businessComposition)
                      IN  map[j].businessComposition
                            = IF w = {} THEN <<>> ELSE log[MaxOf(w)].items
                /\ pc[c] = "done" =>
                      \A i \in 1..Len(result[c]) : \A key \in MetricKeys :
                          LET w == WritesTo(log, result[c][i].year, key)
                          IN  w # {} =>
                                /\ Defined(result[c][i], key)
                                /\ result[c][i][key] = log[MaxOf(w)].val

\* a call given two files that both write the revenue of 2021, 1000 in the
\* first and 1100 in the second, returned 1100
C8_Witness ==
    \E c \in Calls :
        /\ pc[c] = "done"
        /\ files[c] = <<"a", "v">>
        /\ Cardinality(WritesTo(OpsOf(MergedSheets(c)), Year(2, 0, 2, 1), "revenue")) = 2
        /\ \E i \in 1..Len(result[c]) :
              /\ result[c][i].year = Year(2, 0, 2, 1)
              /\ result[c][i].revenue = Int2Num(1100)

\* C9: when a file of the input cannot be read or parsed the call rejects
\* with one error whose message holds that file's name; no later file is
\* read and no records are returned, those of earlier files included.
C9_RejectsWhole ==
    \A c \in Calls :
        FirstUnreadable(c) # 0 =>
            /\ fileIndex[c] <= FirstUnreadable(c)
            /\ pc[c] \notin {"finalize", "done"}
            /\ result[c] = <<>>
            /\ pc[c] = "rejected" =>
                  /\ fileIndex[c] = FirstUnreadable(c)
                  /\ \E i \in 1..Len(error[c]) :
                        error[c][i] = files[c][FirstUnreadable(c)]
            /\ (pc[c] = "read" /\ fileIndex[c] = FirstUnreadable(c)) =>
                  ~ENABLED ReadFile(c)

\* a call rejected at its second file after the first had written records
C9_Witness ==
    \E c \in Calls :
        /\ pc[c] = "rejected"
        /\ fileIndex[c] = 2
        /\ yearDataMap[yearDataMapOf(c)] # <<>>
        /\ result[c] = <<>>
        /\ error[c] = ParseError("bad")

\* what a call on these files settles with when it is the only call
Alone(fileList) ==
    LET bad == {k \in 1..Len(fileList) : ~FileSystem[fileList[k]].readable}
        sheets == Concat([k \in 1..Len(fileList) |-> FileSystem[fileList[k]].sheets])
    IN  IF bad # {}
        THEN [pc |-> "rejected", result |-> <<>>,
              error |-> ParseError(fileList[MinOf(bad)])]
        ELSE [pc |-> "done", error |-> NoError,
              result |-> Finalized(ApplyOps(<<>>, OpsOf(sheets)))]

Outcome(c) == [pc |-> pc[c], result |-> result[c], error |-> error[c]]

\* C10: the outcome of a call depends on its input files only: a settled call
\* has the outcome it has when run alone, however the steps of another call
\* interleave with its own, and two settled calls on the same input have the
\* same outcome.
C10_CallsIsolated ==
    /\ \A c \in Calls :
          pc[c] \in {"done", "rejected"} => Outcome(c) = Alone(files[c])
    /\ \A c1, c2 \in Calls :
          (/\ pc[c1] \in {"done", "rejected"}
           /\ pc[c2] \in {"done", "rejected"}
           /\ files[c1] = files[c2]) => Outcome(c1) = Outcome(c2)

\* the second call settled on an input that writes records after starting
\* while the first call, on another such input, was between its steps
C10_Witness ==
    /\ pc[1] = "sheet"
    /\ yearDataMap[yearDataMapOf(1)] # <<>>
    /\ pc[2] = "done"
    /\ result[2] # <<>>
    /\ files[1] # files[2]


---------------------------------------------------------------------------
(* Claims about identifyMetric *)

\* the label contains one of the two composition phrases
HasCompositionPhrase(label) ==
    Includes(label, BusinessCompositionZh) \/ Includes(label, BusinessCompositionEn)

\* the rules (by position) that a label qualifies for: none of the negative
\* keywords is a substring of the trimmed label and a positive keyword is
QualifyingRules(label) ==
    {i \in 1..Len(METRIC_RULES) :
        /\ \A j \in 1..Len(METRIC_RULES[i].negative) :
              ~Includes(Trim(label), METRIC_RULES[i].negative[j])
        /\ \E j \in 1..Len(METRIC_RULES[i].positive) :
              Includes(Trim(label), METRIC_RULES[i].positive[j])}

\* C11: for a label with neither composition phrase identifyMetric returns
\* the first metric, in the order revenue, netProfitParent, totalAssets,
\* equityParent, operatingCashFlow, capex, costOfRevenue, salesExpenses,
\* managementExpenses, financialExpenses, researchExpenses, taxExpenses, that
\* has no negative keyword and has a positive keyword in the trimmed label; a
\* metric with a negative keyword in the label is never returned; when no
\* metric qualifies the result is null.
C11_FirstQualifying ==
    (callee = "identifyMetric" /\ returned /\ ~HasCompositionPhrase(arg)) =>
        /\ [i \in 1..Len(METRIC_RULES) |-> METRIC_RULES[i].key]
             = <<"revenue", "netProfitParent", "totalAssets", "equityParent",
                 "operatingCashFlow", "capex", "costOfRevenue", "salesExpenses",
                 "managementExpenses", "financialExpenses", "researchExpenses",
                 "taxExpenses">>
        /\ ret = IF QualifyingRules(arg) = {} THEN null
                 ELSE METRIC_RULES[MinOf(QualifyingRules(arg))].key
        /\ \A i \in 1..Len(METRIC_RULES) :
              (\E j \in 1..Len(METRIC_RULES[i].negative) :
                  Includes(Trim(arg), METRIC_RULES[i].negative[j]))
                => ret # METRIC_RULES[i].key

\* a label with a positive keyword of revenue and one of its negative
\* keywords was identified as a later metric
C11_Witness ==
    /\ callee = "identifyMetric" /\ returned
    /\ Includes(arg, RevenueZh)
    /\ 1 \notin QualifyingRules(arg)
    /\ ret = "costOfRevenue"

\* C12: a label that contains "营业收入" and "增长率" and neither composition
\* phrase is identified as null, whatever else it contains.
C12_GrowthRateIsNone ==
    (/\ callee = "identifyMetric" /\ returned
     /\ Includes(arg, RevenueZh) /\ Includes(arg, GrowthRateZh)
     /\ ~HasCompositionPhrase(arg)) => ret = null

\* such a label that also holds a positive keyword of salesExpenses
C12_Witness ==
    /\ callee = "identifyMetric" /\ returned
    /\ Includes(arg, RevenueZh) /\ Includes(arg, GrowthRateZh)
    /\ Includes(arg, METRIC_RULES[8].positive[1])
    /\ ret = null

\* C20: a label that contains a composition phrase is identified as
\* businessComposition whatever metric keywords it contains; the empty label
\* is identified as null.
C20_CompositionFirst ==
    (callee = "identifyMetric" /\ returned) =>
        /\ HasCompositionPhrase(arg) => ret = businessComposition
        /\ arg = <<>> => ret = null

\* a label with a composition phrase and a positive keyword of revenue, none
\* of its negative ones
C20_Witness ==
    /\ callee = "identifyMetric" /\ returned
    /\ HasCompositionPhrase(arg)
    /\ 1 \in QualifyingRules(arg)
    /\ ret = businessComposition

---------------------------------------------------------------------------
(* Claims about cleanNumber *)

\* the text without currency symbols, commas and white space
Cleaned(text) == Trim(RemoveChars(text, CleanedChars))

\* digits with at most one decimal point, and at least one digit
IsUnsignedDecimal(d) ==
    /\ \A i \in 1..Len(d) : d[i] \in Digits \cup {"."}
    /\ Cardinality({i \in 1..Len(d) : d[i] = "."}) <= 1
    /\ \E i \in 1..Len(d) : d[i] \in Digits

\* -n
Negated(n) == [n EXCEPT !.m = 0 - @]

\* the text between the first and the last character
Inner(v) == SubSeq(v, 2, Len(v) - 1)

\* C13: cleanNumber returns, for every string, a number that is not NaN, and
\* returns 0 whenever the cleaned text cannot be parsed as a number, a text
\* that ends with "%" and has no numeric prefix included.
C13_NeverNaN ==
    (callee = "cleanNumber" /\ returned) =>
        /\ ~isNaN(ret)
        /\ isNaN(parseFloat(Parenthesized(Cleaned(arg)))) => ret = Zero

\* cleanNumber returned NaN for a text that is "%" once cleaned
C13_Witness ==
    /\ callee = "cleanNumber" /\ returned
    /\ Cleaned(arg) = <<"%">>
    /\ isNaN(ret)

\* C14: for a text that, once cleaned, is an unsigned decimal number n in one
\* pair of parentheses, cleanNumber returns -n; the parentheses are handled
\* before the percent sign and the dash: "(n%)" gives -n/100 and "()" gives 0.
C14_ParenthesesNegate ==
    (callee = "cleanNumber" /\ returned /\ Len(Cleaned(arg)) >= 2
       /\ Cleaned(arg)[1] = "(" /\ Cleaned(arg)[Len(Cleaned(arg))] = ")") =>
        /\ IsUnsignedDecimal(Inner(Cleaned(arg)))
              => ret = Negated(parseFloat(Inner(Cleaned(arg))))
        /\ Cleaned(arg) = <<"(", "5", "0", "0", ")">> => ret = Int2Num(0 - 500)
        /\ Cleaned(arg) = <<"(", "1", "0", "0", "0", ")">> => ret = Int2Num(0 - 1000)
        /\ (/\ Len(Cleaned(arg)) >= 3
            /\ Cleaned(arg)[Len(Cleaned(arg)) - 1] = "%"
            /\ IsUnsignedDecimal(SubSeq(Cleaned(arg), 2, Len(Cleaned(arg)) - 2)))
              => ret = DivideBy100(Negated(parseFloat(
                           SubSeq(Cleaned(arg), 2, Len(Cleaned(arg)) - 2))))
        /\ Cleaned(arg) = <<"(", ")">> => ret = Zero

\* "($1,000)" with white space around it gave -1000
C14_Witness ==
    /\ callee = "cleanNumber" /\ returned
    /\ arg # Cleaned(arg)
    /\ Cleaned(arg) = <<"(", "1", "0", "0", "0", ")">>
    /\ "$" \in {arg[i] : i \in 1..Len(arg)}
    /\ ret = Int2Num(0 - 1000)

---------------------------------------------------------------------------
(* Claims about parseBusinessComposition *)

\* the fragments of a composition text
Fragments(text) == Split(text, {";", "uFF1B"})

\* the value part of a fragment parses to a finite number
ValueParses(fragment) ==
    /\ Len(Split(fragment, {":", "uFF1A"})) >= 2
    /\ parseFloat(Parenthesized(Cleaned(Split(fragment, {":", "uFF1A"})[2]))).k = "num"

\* C15: every item parseBusinessComposition returns has a non-empty trimmed
\* name and a finite value parsed from the value part of its fragment;
\* the items are those of the fragments with a name and a value part that
\* parses to a finite number, in the order of the fragments.
C15_ItemsParsed ==
    (callee = "parseBusinessComposition" /\ returned) =>
        /\ \A i \in 1..Len(ret) :
              /\ ret[i].name # <<>> /\ ret[i].name = Trim(ret[i].name)
              /\ ret[i].value.k = "num"
        /\ Len(ret) = Cardinality({i \in 1..Len(Fragments(arg)) :
                         /\ ValueParses(Fragments(arg)[i])
                         /\ Trim(Split(Fragments(arg)[i], {":", "uFF1A"})[1]) # <<>>})

\* the fragment "A:abc" was kept as an item of value 0 next to "B:2"
C15_Witness ==
    /\ callee = "parseBusinessComposition" /\ returned
    /\ Len(Fragments(arg)) = 2
    /\ Fragments(arg)[1] = <<"A", ":", "a", "b", "c">>
    /\ Len(ret) = 2
    /\ ret[1] = [name |-> <<"A">>, value |-> Zero]

---------------------------------------------------------------------------
(* Claims about the year keys *)

FourDigits(s) == Len(s) = 4 /\ \A i \in 1..4 : s[i] \in Digits

\* C16: every year key of yearDataMap, and the year of every returned
\* record, is a string of exactly four decimal digits, whatever the header
\* cell (years as columns) or the first cell of the row (years as rows) holds.
C16_FourDigitYears ==
    \A c \in Calls :
        /\ \A i \in 1..Len(yearDataMap[c]) : FourDigits(yearDataMap[c][i].year)
        /\ \A i \in 1..Len(result[c]) : FourDigits(result[c][i].year)

\* a call returned the records of a header row with the cells "12021",
\* "2019-2020" and "2020年" and of a data row that starts with "20201"
C16_Witness ==
    \E c \in Calls :
        /\ pc[c] = "done" /\ files[c] = <<"l">>
        /\ YearsOf(result[c]) = {Year(1, 2, 0, 2), Year(2, 0, 1, 9), Year(2, 0, 2, 0)}
        /\ YearsOf(yearDataMap[c]) = YearsOf(result[c])

---------------------------------------------------------------------------
(* Claims about the detection *)

\* the cells of a row that identify as one of the metrics of METRIC_RULES
CanonicalCount(row) ==
    Cardinality({i \in 1..Len(row) :
        identifyMetric(Trim(String(row[i]))) \in MetricKeys})

\* the row has two year-like cells or three metric cells
IsHeader(row) == yearCount(row) >= 2 \/ CanonicalCount(row) >= 3

\* the rows (from 0) among the first 30 that are headers
HeadersIn(sheetRows) ==
    {r \in 0..(MinOf({Len(sheetRows), 30}) - 1) : IsHeader(sheetRows[r + 1])}

\* C17: only cells identified as a metric count toward the three cells of a
\* vertical header; a cell identified as businessComposition does not, so
\* the header row of a sheet detected as VERTICAL has three metric cells.
C17_MarkerNotCounted ==
    (callee = "detectStrategy" /\ returned /\ ret.detectedStrategy = "VERTICAL") =>
        CanonicalCount(arg[ret.headerRowIndex + 1]) >= 3

\* a sheet of one row with two metric labels and the composition phrase was
\* detected as VERTICAL
C17_Witness ==
    /\ callee = "detectStrategy" /\ returned
    /\ arg = <<RowMarker>>
    /\ CanonicalCount(RowMarker) = 2 /\ yearCount(RowMarker) = 0
    /\ ret = [detectedStrategy |-> "VERTICAL", headerRowIndex |-> 0]

\* C18: the detection stops at the first row, top to bottom, that has two
\* year-like cells or three metric cells: that row is the header row whatever
\* the rows below it hold, and the strategy is HORIZONTAL when the row has
\* two year-like cells, three metric cells or not.
C18_FirstHeaderWins ==
    (callee = "detectStrategy" /\ returned) =>
        IF HeadersIn(arg) = {}
        THEN ret = [detectedStrategy |-> null, headerRowIndex |-> -1]
        ELSE /\ ret.headerRowIndex = MinOf(HeadersIn(arg))
             /\ ret.detectedStrategy =
                  IF yearCount(arg[MinOf(HeadersIn(arg)) + 1]) >= 2
                  THEN "HORIZONTAL" ELSE "VERTICAL"

\* the detection stopped at a row with two metric labels and the composition
\* phrase, above a row with three metric labels
C18_Witness ==
    /\ callee = "detectStrategy" /\ returned
    /\ arg = <<RowMarker, RowMetrics>>
    /\ HeadersIn(arg) = {1}
    /\ ret = [detectedStrategy |-> "VERTICAL", headerRowIndex |-> 0]

\* C19: a sheet none of whose first 30 rows has two year-like cells or three
\* metric cells leaves yearDataMap as it was, also when a row from index 30
\* on is a header; the call goes on with the next sheet and no error is set.
C19_NoHeaderNoChange ==
    [][\A c \in Calls :
         (ProcessSheet(c) /\ HeadersIn(workbook(c).sheets[sheetIndex[c]]) = {}) =>
            /\ yearDataMap' = yearDataMap
            /\ error' = error
            /\ pc'[c] \in {"sheet", "read", "finalize"}]_vars

\* a call went through a sheet whose header row has two metric labels and
\* the composition phrase, and wrote the year of its data row
C19_Witness ==
    \E c \in Calls :
        /\ rows[c] = SheetM /\ HeadersIn(SheetM) = {}
        /\ detectedStrategy[c] = "VERTICAL"
        /\ HasYear(yearDataMap[c], Year(2, 0, 2, 0))

---------------------------------------------------------------------------
(* Claims about the fragments of a composition text *)

\* the place of the first colon of a fragment, 0 without one
FirstColon(fragment) ==
    IF \E i \in 1..Len(fragment) : fragment[i] \in {":", "uFF1A"}
    THEN MinOf({i \in 1..Len(fragment) : fragment[i] \in {":", "uFF1A"}})
    ELSE 0

\* the item of a fragment split at its first colon only
ItemAtFirstColon(fragment) ==
    IF FirstColon(fragment) = 0 THEN <<>>
    ELSE NamedItem(Trim(SubSeq(fragment, 1, FirstColon(fragment) - 1)),
                   cleanNumber(StrCell(SubSeq(fragment, FirstColon(fragment) + 1,
                                              Len(fragment)))))

\* C21: parseBusinessComposition splits a fragment at its first colon only:
\* the name is the text before it and the value is cleanNumber of all the
\* text after it, a second colon included.
C21_FirstColonOnly ==
    (callee = "parseBusinessComposition" /\ returned) =>
        ret = Concat([i \in 1..Len(Fragments(arg)) |->
                         ItemAtFirstColon(Fragments(arg)[i])])

\* the fragment "H:1:2%" gave the value 1, cleanNumber of "1", where
\* cleanNumber of "1:2%" is 0.01
C21_Witness ==
    /\ callee = "parseBusinessComposition" /\ returned
    /\ arg = <<"H", ":", "1", ":", "2", "%">>
    /\ ret = <<[name |-> <<"H">>, value |-> Int2Num(1)]>>
    /\ cleanNumber(StrCell(<<"1", ":", "2", "%">>)) = Dec(1, 2)

---------------------------------------------------------------------------
(* Claims about the data rows of a sheet *)

\* the sheet call c is about to go through
CurrentSheet(c) == workbook(c).sheets[sheetIndex[c]]

\* the rows below the header row h (from 0)
RowsBelow(sheetRows, h) == SubSeq(sheetRows, h + 2, Len(sheetRows))

\* the label of the row identifies as a metric
IsMetricRow(row) == identifyMetric(RowLabel(row)) \in MetricKeys

\* the first cell of the row starts with four digits
IsYearRow(row) == DigitRun(Trim(String(At(row, 0))), 1) >= 4

\* the header row and, of the rows below it, the metric rows
MetricRowsOnly(sheetRows, h) ==
    <<sheetRows[h + 1]>> \o SelectSeq(RowsBelow(sheetRows, h), IsMetricRow)

\* the header row and, of the rows below it, the rows with a year
YearRowsOnly(sheetRows, h) ==
    <<sheetRows[h + 1]>> \o SelectSeq(RowsBelow(sheetRows, h), IsYearRow)

\* the businessComposition of the years of map old is the same in map new,
\* and the years new has more have none
SameCompositions(old, new) ==
    /\ \A y \in YearsOf(old) :
          /\ HasYear(new, y)
          /\ RecordOf(new, y).businessComposition
               = RecordOf(old, y).businessComposition
    /\ \A y \in YearsOf(new) \ YearsOf(old) :
          RecordOf(new, y).businessComposition = <<>>

\* C22: going through a sheet detected as HORIZONTAL leaves the
\* businessComposition of every year of yearDataMap as it was; the rows
\* whose label identifies as businessComposition or as nothing, the header
\* row and the rows above it write nothing and create no year: the map is
\* what the header row and the metric rows below it alone would give.
C22_HorizontalFrame ==
    [][\A c \in Calls :
         (/\ ProcessSheet(c)
          /\ detectStrategy(CurrentSheet(c)).detectedStrategy = "HORIZONTAL") =>
            /\ SameCompositions(yearDataMap[yearDataMapOf(c)],
                                yearDataMap'[yearDataMapOf(c)])
            /\ yearDataMap'[yearDataMapOf(c)]
                 = ApplyOps(yearDataMap[yearDataMapOf(c)],
                            SheetOps(MetricRowsOnly(CurrentSheet(c),
                                detectStrategy(CurrentSheet(c)).headerRowIndex)))]_vars

\* a call went through a horizontal sheet with a metric row above its header
\* row and a composition row below it; the composition of 2020, a year of
\* its header row, is still the one an earlier sheet wrote
C22_Witness ==
    \E c \in Calls :
        /\ files[c] = <<"l">> /\ pc[c] = "finalize"
        /\ rows[c] = SheetY /\ detectedStrategy[c] = "HORIZONTAL"
        /\ headerRowIndex[c] = 1
        /\ ~IsMetricRow(SheetY[4])
        /\ RecordOf(yearDataMap[c], Year(2, 0, 2, 0)).businessComposition
             = <<[name |-> <<"A">>, value |-> Int2Num(1)]>>
        /\ Defined(RecordOf(yearDataMap[c], Year(2, 0, 2, 0)), "costOfRevenue")

\* C23: in a sheet detected as VERTICAL a row below the header row whose
\* first cell does not start with four digits changes nothing, and the
\* header row and the rows above it are not data rows: the map is what the
\* header row and the rows with a year below it alone would give, and a year
\* it has more is the first four digits of such a row.
C23_VerticalFrame ==
    [][\A c \in Calls :
         (/\ ProcessSheet(c)
          /\ detectStrategy(CurrentSheet(c)).detectedStrategy = "VERTICAL") =>
            /\ yearDataMap'[yearDataMapOf(c)]
                 = ApplyOps(yearDataMap[yearDataMapOf(c)],
                            SheetOps(YearRowsOnly(CurrentSheet(c),
                                detectStrategy(CurrentSheet(c)).headerRowIndex)))
            /\ YearsOf(yearDataMap'[yearDataMapOf(c)])
                 \subseteq YearsOf(yearDataMap[yearDataMapOf(c)]) \cup
                    {SubSeq(Trim(String(At(CurrentSheet(c)[k], 0))), 1, 4) :
                        k \in {j \in (detectStrategy(CurrentSheet(c)).headerRowIndex + 2)
                                        ..Len(CurrentSheet(c)) :
                                  IsYearRow(CurrentSheet(c)[j])}}]_vars

\* a call went through a vertical sheet with a row that starts with "2019"
\* above its header row and a row that starts with "合计" below it, and has
\* the year 2020 alone
C23_Witness ==
    \E c \in Calls :
        /\ rows[c] = SheetM /\ detectedStrategy[c] = "VERTICAL"
        /\ headerRowIndex[c] = 1
        /\ IsYearRow(SheetM[1]) /\ ~IsYearRow(SheetM[4])
        /\ YearsOf(yearDataMap[c]) = {Year(2, 0, 2, 0)}

---------------------------------------------------------------------------
(* Claims about the cells a sheet's data rows write *)

\* the cells a horizontal sheet writes, [year, key, cell], in the order of
\* its metric rows and, in a row, of the year columns
HorizontalCellWrites(sheetRows, h) ==
    Concat([k \in 1..Len(MetricRowsOnly(sheetRows, h)) - 1 |->
        [i \in 1..Len(yearColMap(sheetRows[h + 1])) |->
            [year |-> yearColMap(sheetRows[h + 1])[i].year,
             key |-> identifyMetric(RowLabel(MetricRowsOnly(sheetRows, h)[k + 1])),
             cell |-> At(MetricRowsOnly(sheetRows, h)[k + 1],
                         yearColMap(sheetRows[h + 1])[i].col)]]])

\* the cells a vertical sheet writes, [year, key, cell], in the order of its
\* rows with a year and, in a row, of the metric columns
VerticalCellWrites(sheetRows, h) ==
    Concat([k \in 1..Len(YearRowsOnly(sheetRows, h)) - 1 |->
        [i \in 1..Len(metricColMap(sheetRows[h + 1])) |->
            [year |-> SubSeq(Trim(String(At(YearRowsOnly(sheetRows, h)[k + 1], 0))), 1, 4),
             key |-> metricColMap(sheetRows[h + 1])[i].key,
             cell |-> At(YearRowsOnly(sheetRows, h)[k + 1],
                         metricColMap(sheetRows[h + 1])[i].col)]]])

\* the cells the sheet call c went through last wrote
CellWrites(c) ==
    IF detectedStrategy[c] = "HORIZONTAL"
    THEN HorizontalCellWrites(rows[c], headerRowIndex[c])
    ELSE IF detectedStrategy[c] = "VERTICAL"
    THEN VerticalCellWrites(rows[c], headerRowIndex[c])
    ELSE <<>>

\* of these, the last one of each year and key
LastCellWrites(writes) ==
    {writes[i] : i \in {j \in 1..Len(writes) :
        \A k \in (j + 1)..Len(writes) :
            writes[k].year # writes[j].year \/ writes[k].key # writes[j].key}}

\* the cell is missing, empty or not the text of a number
Unparseable(cell) ==
    \/ cell.t = "undefined"
    \/ cell.t = "string" /\ isNaN(parseFloat(Parenthesized(Cleaned(cell.s))))

\* no fragment of the text has a name and a value that parses
NoFragmentParses(text) ==
    \A i \in 1..Len(Fragments(text)) :
        ~ValueParses(Fragments(text)[i])
          \/ Trim(Split(Fragments(text)[i], {":", "uFF1A"})[1]) = <<>>

\* C24: in a sheet detected as VERTICAL with a businessComposition column,
\* the composition of a year is, after the sheet, the parse of the cell of
\* the last row of that year, nothing kept from before; a cell that is empty
\* or has no fragment that parses leaves the list empty.
C24_CompositionReplaced ==
    \A c \in Calls :
        detectedStrategy[c] = "VERTICAL" =>
            \A w \in LastCellWrites(CellWrites(c)) :
                w.key = businessComposition =>
                    /\ RecordOf(yearDataMap[yearDataMapOf(c)], w.year).businessComposition
                         = parseBusinessComposition(String(w.cell))
                    /\ NoFragmentParses(String(w.cell)) =>
                         RecordOf(yearDataMap[yearDataMapOf(c)], w.year).businessComposition
                           = <<>>

\* the composition of 2021 after the cell "A:abc;:5;B" is one item of value 0
C24_Witness ==
    \E c \in Calls :
        /\ rows[c] = SheetV /\ detectedStrategy[c] = "VERTICAL"
        /\ NoFragmentParses(String(SheetV[3][6]))
        /\ RecordOf(yearDataMap[yearDataMapOf(c)], Year(2, 0, 2, 1)).businessComposition
             = <<[name |-> <<"A">>, value |-> Zero]>>

\* C25: a metric row of a horizontal sheet writes every year column and a
\* row with a year of a vertical sheet writes every metric column: after the
\* sheet the value of that year and metric is the one of the last such cell,
\* 0 when the cell is empty, missing or not the text of a number, whatever
\* was stored before.
C25_EveryCellWritten ==
    \A c \in Calls :
        \A w \in LastCellWrites(CellWrites(c)) :
            w.key # businessComposition =>
                /\ HasYear(yearDataMap[yearDataMapOf(c)], w.year)
                /\ Defined(RecordOf(yearDataMap[yearDataMapOf(c)], w.year), w.key)
                /\ RecordOf(yearDataMap[yearDataMapOf(c)], w.year)[w.key]
                     = IF Unparseable(w.cell) THEN Zero
                       ELSE StoredValue(w.key, cleanNumber(w.cell))

\* the capex of 2021 after the cell "%" is NaN
C25_Witness ==
    \E c \in Calls :
        /\ rows[c] = SheetV /\ detectedStrategy[c] = "VERTICAL"
        /\ \E w \in LastCellWrites(CellWrites(c)) :
              /\ w.year = Year(2, 0, 2, 1) /\ w.key = "capex"
              /\ w.cell = StrCell(<<"%">>)
              /\ Unparseable(w.cell)
        /\ isNaN(RecordOf(yearDataMap[yearDataMapOf(c)], Year(2, 0, 2, 1)).capex)

---------------------------------------------------------------------------
(* Claims about App                                                        *)

\* C26: whenever the view is DETAIL, activeProjectId is the id of a project
\* in projects, whatever the order of the handlers and of the completion of
\* an extraction.
C26_DetailHasProject ==
    view = "DETAIL" => activeProjectId \in IdsOf(projects)

\* the refreshed project was deleted while its extraction waited: the view
\* is DETAIL for an id no project has
C26_Witness ==
    /\ view = "DETAIL" /\ status = "SUCCESS"
    /\ activeProjectId = "saved"
    /\ projects = <<>>
    /\ getActiveProject = {}

\* C27: at most one extraction waits at a time, and the status is ANALYZING
\* for as long as one waits.
C27_OneExtraction ==
    pending # EmptyBag => status = "ANALYZING" /\ BagCardinality(pending) = 1

\* two extractions wait, the second started after handleStartUpload had
\* set the status to IDLE
C27_Witness ==
    /\ BagCardinality(pending) = 2
    /\ view = "UPLOAD" /\ status = "ANALYZING"

\* handleAnalyzeComplete ends in its catch clause
ExtractionFails ==
    \E editing \in BagToSet(pending) :
        ExtractionResolves(editing, 0) \/ ExtractionRejects(editing)

\* the projects a step has created or updated
Stored == {projects'[i] : i \in 1..Len(projects')} \ {projects[i] : i \in 1..Len(projects)}

\* C28: when the extraction returns nothing or rejects, handleAnalyzeComplete
\* ends with the status ERROR and an error message and leaves projects,
\* activeProjectId, editingProjectId and view as they are; every project a
\* step creates or updates has at least one year record.
C28_EmptyIsAnError ==
    [][/\ ExtractionFails =>
             /\ status' = "ERROR" /\ appError' # null
             /\ UNCHANGED <<projects, activeProjectId, editingProjectId, view>>
       /\ \A p \in Stored : p.data >= 1]_vars

\* an empty result has ended a refresh in the catch clause, the project as
\* it was
C28_Witness ==
    /\ status = "ERROR" /\ appError = NoDataMessage
    /\ view = "UPLOAD" /\ editingProjectId = "saved"
    /\ pending = EmptyBag
    /\ projects = <<[id |-> "saved", data |-> 2]>>

\* C29: whenever the view is COMPARE, at least two projects that exist are
\* compared.
C29_ComparesTwo ==
    view = "COMPARE" => Cardinality(getCompareProjects) >= 2

\* a selected project was deleted before handleCompare: two ids are
\* compared, one of no project
C29_Witness ==
    /\ view = "COMPARE"
    /\ Cardinality(compareProjectIds) = 2
    /\ Cardinality(getCompareProjects) = 1

---------------------------------------------------------------------------
(* Claims about ProfitSankey                                               *)

\* the sibling moveNode(id, direction) is to swap with, as the set of it
Neighbour(id, direction) ==
    LET siblings == Siblings(nodes[findIndex(nodes, id)])
        k == findIndex(siblings, id) + (IF direction = "up" THEN -1 ELSE 1)
    IN IF k \in 1..Len(siblings) THEN {siblings[k]} ELSE {}

\* nodes with the order of the nodes a and b exchanged
Swapped(a, b) ==
    [i \in 1..Len(nodes) |->
        IF nodes[i].id = a.id THEN [nodes[i] EXCEPT !.order = b.order]
        ELSE IF nodes[i].id = b.id THEN [nodes[i] EXCEPT !.order = a.order]
        ELSE nodes[i]]

\* C30: moveNode(id, 'up') exchanges the order of the node and of its
\* previous sibling, moveNode(id, 'down') of the node and of its next
\* sibling, every other node as it was; with no such sibling the list is
\* as it was.
C30_MoveSwaps ==
    [][\A id \in Editable, direction \in {"up", "down"} :
          moveNode(id, direction) =>
              IF Neighbour(id, direction) = {} THEN nodes' = nodes
              ELSE \A sibling \in Neighbour(id, direction) :
                      nodes' = Swapped(nodes[findIndex(nodes, id)], sibling)]_vars

\* after moveNode('cost_revenue', 'up') on the default list: net_profit has
\* the order 3 of cost_revenue, which has kept it
C30_Witness ==
    nodes = << [id |-> "default_source", type |-> "source", parentId |-> null, order |-> 0],
               [id |-> "revenue", type |-> "root", parentId |-> null, order |-> 0],
               [id |-> "net_profit", type |-> "item", parentId |-> "revenue", order |-> 3],
               [id |-> "cost_revenue", type |-> "item", parentId |-> "revenue", order |-> 3] >>
===========================================================================
